------------------------------ MODULE Playback ------------------------------
(***************************************************************************)
(* Watching a package: internal/playback and the two handlers of           *)
(* api/playback.go. A caller has a link minted for an artifact of a set;   *)
(* a player without any key of its own uses the link to fetch playlists    *)
(* and the scrubbing index, which come back rewritten: references to       *)
(* playlists lead back to the service, references to media are signed      *)
(* storage URLs. The signature of a link is taken to be unforgeable, and   *)
(* every name in a package to be one SafeFile accepts.                     *)
(***************************************************************************)
EXTENDS Integers, FiniteSets, Sequences

CONSTANTS
    Links,        \* links that may be minted
    Package,      \* Package[name]: the lines of a text file of the set
    Playlists,    \* those that end in .m3u8; the other text files end in .vtt
    Media,        \* the names of its other files
    Second,       \* ticks of the clock in a second
    TTL,          \* config.PlaybackTTL, in ticks
    RequestTime,  \* ticks a request may take; the server sets no limit of its own
    MaxTime       \* ticks considered

ASSUME PlaybackAssumption ==
    /\ Playlists \subseteq DOMAIN Package
    /\ "master.m3u8" \in Playlists /\ "sprite.vtt" \in DOMAIN Package \ Playlists
    /\ Media \cap DOMAIN Package = {}
    /\ Second \in Nat \ {0} /\ TTL \in Nat \ {0} /\ RequestTime \in Nat /\ MaxTime \in Nat
    /\ TTL % Second = 0
    /\ \A file \in DOMAIN Package : \A i \in DOMAIN Package[file] :
         Package[file][i].form # "plain" => Package[file][i].name \in Media \cup DOMAIN Package

VARIABLES
    now,      \* the clock, in ticks
    set,      \* state of the artifact set
    link,     \* link[l]: <<>> or <<[minted, claim]>>, the claim in whole seconds
    request,  \* request[l]: <<>> or <<[file, since]>>, past Verify
    held,     \* references players have been given: [link, name, via, until]
    played,   \* media fetched: <<link, name>>
    reply     \* the last answer to a player with the link

vars == <<now, set, link, request, held, played, reply>>

Names == Media \cup DOMAIN Package

TypeOK ==
    /\ now \in 0 .. MaxTime /\ set \in {"building", "complete", "failed"}
    /\ \A l \in Links :
         /\ Len(link[l]) <= 1 /\ Len(request[l]) <= Len(link[l])
         /\ request[l] # <<>> => /\ request[l][1].file \in DOMAIN Package
                                 /\ request[l][1].since \in 0 .. now
                                 /\ now - request[l][1].since <= RequestTime
         /\ reply[l] \in {"none", "link_expired", "not_ready", "served"}
    /\ held \subseteq [link : Links, name : Names, via : {"path", "url"},
                       until : 0 .. now + TTL]
    /\ played \subseteq Links \X Names

Init ==
    /\ now = 0 /\ set = "building"
    /\ link = [l \in Links |-> <<>>] /\ request = [l \in Links |-> <<>>]
    /\ held = {} /\ played = {} /\ reply = [l \in Links |-> "none"]

----------------------------------------------------------------------------

\* The job ends and its set is closed (see ArtifactSet).
CloseSet ==
    /\ set = "building" /\ set' \in {"complete", "failed"}
    /\ UNCHANGED <<now, link, request, held, played, reply>>

\* A reference of kind "path" leads back to the service with the link it came with.
Path(l, name) == [link |-> l, name |-> name, via |-> "path", until |-> 0]

\* Mint: the claim is the expiry as a Unix time, its fraction of a second dropped.
Mint(l) == link' = [link EXCEPT ![l] = << [minted |-> now, claim |-> (now + TTL) \div Second] >>]

\* handleCreatePlaybackLink: for a streaming playlist or a scrubbing index, which
\* may be registered in a set that is not complete yet.
CreatePlaybackLink(l, file) ==
    /\ link[l] = <<>> /\ file \in {"master.m3u8", "sprite.vtt"}
    /\ Mint(l)
    /\ held' = held \cup {Path(l, file)}
    /\ UNCHANGED <<now, set, request, played, reply>>

\* Faulty variant of Verify: a good signature is enough.
VerifySignature(l) == TRUE

\* Verify: the link is good until its claim has passed.
Verify(l) == now <= link[l][1].claim * Second

\* A player asks for a text file it has been referred to; the link is verified.
Request(l, file) ==
    /\ link[l] # <<>> /\ request[l] = <<>> /\ Path(l, file) \in held
    /\ \/ /\ Verify(l)
          /\ request' = [request EXCEPT ![l] = << [file |-> file, since |-> now] >>]
          /\ UNCHANGED reply
       \/ /\ ~Verify(l)
          /\ reply' = [reply EXCEPT ![l] = "link_expired"]
          /\ UNCHANGED request
    /\ UNCHANGED <<now, set, link, held, played>>

\* PresignGet: a URL of storage.
PresignGet(l, name) == [link |-> l, name |-> name, via |-> "url", until |-> now + TTL]

\* Faulty variant of Resolve: playlists are signed like everything else.
ResolveStorage(l, name) == PresignGet(l, name)

\* resolve: a playlist leads back here, by its suffix, and anything else straight to
\* storage, an index that a playlist names included.
Resolve(l, name) == IF name \in Playlists THEN Path(l, name) ELSE PresignGet(l, name)

\* RewriteHLS and RewriteVTT: in a playlist a bare line and the URI attribute of a tag
\* are resolved, in an index the image of a cue is signed; everything else is copied.
Rewrite(l, file, line) ==
    CASE file \in Playlists /\ line.form \in {"bare", "uri"} -> {Resolve(l, line.name)}
      [] file \notin Playlists /\ line.form = "cue" -> {PresignGet(l, line.name)}
      [] OTHER -> {}

\* The rest of handlePlayback: only a complete set is served.
HandlePlayback(l) ==
    /\ request[l] # <<>>
    /\ \/ /\ set # "complete"
          /\ reply' = [reply EXCEPT ![l] = "not_ready"] /\ UNCHANGED held
       \/ /\ set = "complete"
          /\ reply' = [reply EXCEPT ![l] = "served"]
          /\ LET file == request[l][1].file
             IN  held' = held \cup UNION { Rewrite(l, file, Package[file][i]) :
                                           i \in DOMAIN Package[file] }
    /\ request' = [request EXCEPT ![l] = <<>>]
    /\ UNCHANGED <<now, set, link, played>>

\* Storage serves a signed URL until it runs out.
FetchMedia(l, name) ==
    /\ \E h \in held : h.link = l /\ h.name = name /\ h.via = "url" /\ now <= h.until
    /\ played' = played \cup {<<l, name>>}
    /\ UNCHANGED <<now, set, link, request, held, reply>>

Tick ==
    /\ now < MaxTime /\ now' = now + 1
    /\ \A l \in Links : request[l] # <<>> => now - request[l][1].since < RequestTime
    /\ UNCHANGED <<set, link, request, held, played, reply>>

Next ==
    \/ CloseSet \/ Tick
    \/ \E l \in Links :
         \/ \E file \in DOMAIN Package : CreatePlaybackLink(l, file) \/ Request(l, file)
         \/ HandlePlayback(l)
         \/ \E name \in Names : FetchMedia(l, name)

Spec == Init /\ [][Next]_vars

\* Requests are answered, and a player follows every reference it is given.
LiveSpec ==
    /\ Spec
    /\ \A l \in Links :
         /\ WF_vars(HandlePlayback(l))
         /\ \A file \in DOMAIN Package : SF_vars(Request(l, file))
         /\ \A name \in Names : WF_vars(FetchMedia(l, name) /\ <<l, name>> \notin played)

----------------------------------------------------------------------------

\* Nothing is delivered from a set that is not complete, whenever the link was
\* minted and however requests and the end of the job interleave.
OnlyCompleteSetPlays == (\E h \in held : h.via # "path") => set = "complete"

\* What one link gives access to ends: the last URL signed for it runs out one
\* lifetime after the link does, give or take the request that signed it.
AccessBounded ==
    \A h \in held : h.via = "url" => h.until <= link[h.link][1].minted + 2 * TTL + RequestTime

\* While a link is good, the whole package can be watched with it: a player that
\* starts at the master playlist gets at every media file listed anywhere below.
LinkReachesEverything ==
    \A l \in Links :
      (set = "complete" /\ Path(l, "master.m3u8") \in held)
        ~> \/ \A name \in Media \ {"sprite.jpg"} : <<l, name>> \in played
           \/ link[l] # <<>> /\ now > link[l][1].claim * Second

\* token.go: a minted link is valid for the lifetime it was given, less the
\* fraction of a second its claim cannot express. A player is never turned away
\* earlier than that, whenever within a second the link was minted.
LinkLivesAsPromised ==
    \A l \in Links : reply[l] = "link_expired" => now > link[l][1].minted + TTL - Second

\* A link gives what it promises and no more, whenever it is minted and used: only
\* complete sets, for as long as promised and not for ever.
LinkKeepsItsPromise ==
    /\ TypeOK /\ OnlyCompleteSetPlays
    /\ LinkLivesAsPromised /\ AccessBounded
============================================================================
