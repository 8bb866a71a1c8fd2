---------------------------- MODULE PlayerProofs ----------------------------
(***************************************************************************)
(* What a player relies on, for every source, package, lifetime, frame     *)
(* rate and duration: the renditions it chooses between are worth choosing *)
(* between and were validated rightly, the link it watches with keeps its  *)
(* promise, the keyframes it switches renditions at are on the grid the    *)
(* segments are cut on, and the strip it scrubs along is exact.            *)
(***************************************************************************)
EXTENDS Playback, MediaPipeline, GrowingFile, FiniteSetTheorems, WellFoundedInduction,
        TLAPS

\* Division rounds down: a multiple of the divisor is left, and less than one more.
LEMMA Division ==
    ASSUME NEW a \in Nat, NEW b \in Nat \ {0}
    PROVE  a \div b \in Nat /\ (a \div b) * b <= a /\ a < (a \div b) * b + b
OBVIOUS

----------------------------------------------------------------------------
(* Links *)

LinkRow == [minted : Nat, claim : Nat]

RequestRow == [file : DOMAIN Package, since : Nat]

\* What is known of the links besides what they promise: a link's claim is its
\* lifetime in whole seconds, whatever is held or answered belongs to a link that
\* was minted, and a request that is past Verify came before the claim had passed.
LinkInvariant ==
    /\ LinkKeepsItsPromise
    /\ link \in [Links -> {<<>>} \cup {<<r>> : r \in LinkRow}]
    /\ request \in [Links -> {<<>>} \cup {<<r>> : r \in RequestRow}]
    /\ reply \in [Links -> {"none", "link_expired", "not_ready", "served"}]
    /\ \A l \in Links :
         /\ link[l] # <<>> => /\ link[l][1].minted <= now
                              /\ link[l][1].claim = (link[l][1].minted + TTL) \div Second
         /\ request[l] # <<>> => /\ link[l] # <<>>
                                 /\ request[l][1].since <= link[l][1].claim * Second
         /\ reply[l] # "none" => link[l] # <<>>
    /\ \A h \in held : link[h.link] # <<>>

\* A claim is short of the lifetime it stands for by less than a second.
LEMMA ClaimIsLifetime ==
    ASSUME NEW m \in Nat, NEW c, c = (m + TTL) \div Second
    PROVE  /\ c \in Nat /\ c * Second \in Nat
           /\ c * Second <= m + TTL /\ m + TTL < c * Second + Second
<1>1. m + TTL \in Nat /\ Second \in Nat \ {0}
  BY PlaybackAssumption
<1>2. c \in Nat /\ c * Second <= m + TTL /\ m + TTL < c * Second + Second
  BY <1>1, Division
<1> QED
  BY <1>1, <1>2

\* The link of a reference is minted, with a claim that is its lifetime.
LEMMA LinkShape ==
    ASSUME LinkInvariant, NEW l \in Links, link[l] # <<>>
    PROVE  /\ Len(link[l]) = 1 /\ link[l][1] \in LinkRow
           /\ link[l][1].minted \in Nat /\ link[l][1].minted <= now
           /\ link[l][1].claim * Second \in Nat
           /\ link[l][1].claim * Second <= link[l][1].minted + TTL
           /\ link[l][1].minted + TTL < link[l][1].claim * Second + Second
<1>1. PICK r \in LinkRow : link[l] = <<r>>
  BY DEF LinkInvariant
<1>2. link[l][1] = r /\ Len(link[l]) = 1 /\ r.minted \in Nat
  BY <1>1 DEF LinkRow
<1>3. r.minted <= now /\ r.claim = (r.minted + TTL) \div Second
  BY <1>2 DEF LinkInvariant
<1> QED
  BY <1>2, <1>3, ClaimIsLifetime

LEMMA RequestShape ==
    ASSUME LinkInvariant, NEW l \in Links, request[l] # <<>>
    PROVE  /\ Len(request[l]) = 1 /\ request[l][1].file \in DOMAIN Package
           /\ request[l][1].since \in Nat
<1>1. PICK r \in RequestRow : request[l] = <<r>>
  BY DEF LinkInvariant
<1> QED
  BY <1>1 DEF RequestRow

LEMMA LinkInit == Init => LinkInvariant
<1> SUFFICES ASSUME Init PROVE LinkInvariant
  OBVIOUS
<1>1. TypeOK
  BY PlaybackAssumption DEF Init, TypeOK
<1>2. OnlyCompleteSetPlays /\ LinkLivesAsPromised /\ AccessBounded
  BY DEF Init, OnlyCompleteSetPlays, LinkLivesAsPromised,
     AccessBounded
<1> QED
  BY <1>1, <1>2 DEF Init, LinkInvariant, LinkKeepsItsPromise

\* The job ends: nothing has been delivered from its set, and links stay.
LEMMA CloseSetLinks == LinkInvariant /\ CloseSet => LinkInvariant'
<1> SUFFICES ASSUME LinkInvariant, CloseSet PROVE LinkInvariant'
  OBVIOUS
<1>1. TypeOK' /\ LinkLivesAsPromised' /\ AccessBounded'
  BY DEF CloseSet, LinkInvariant, LinkKeepsItsPromise, TypeOK,
         LinkLivesAsPromised, AccessBounded
<1>2. OnlyCompleteSetPlays'
  BY DEF CloseSet, LinkInvariant, LinkKeepsItsPromise, OnlyCompleteSetPlays
<1> QED
  BY <1>1, <1>2 DEF CloseSet, LinkInvariant, LinkKeepsItsPromise

\* Time passes, but not over a request: access only gets older.
LEMMA TickLinks == LinkInvariant /\ Tick => LinkInvariant'
<1> SUFFICES ASSUME LinkInvariant, Tick PROVE LinkInvariant'
  OBVIOUS
<1>1. /\ now \in 0 .. MaxTime /\ now' \in 0 .. MaxTime /\ now' = now + 1
      /\ UNCHANGED <<set, link, request, held, played, reply>>
  BY PlaybackAssumption DEF Tick, LinkInvariant, LinkKeepsItsPromise, TypeOK
<1>2. TypeOK'
  <2>1. ASSUME NEW l \in Links, request[l] # <<>>
        PROVE  /\ request[l][1].since \in 0 .. now' /\ now' - request[l][1].since <= RequestTime
    <3>1. request[l][1].since \in Nat
      BY <2>1, RequestShape
    <3>2. request[l][1].since \in 0 .. now
      BY <2>1 DEF LinkInvariant, LinkKeepsItsPromise, TypeOK
    <3>3. now - request[l][1].since < RequestTime
      BY <2>1 DEF Tick
    <3> QED
      BY <1>1, <3>1, <3>2, <3>3, PlaybackAssumption
  <2>2. held \subseteq [link : Links, name : Names, via : {"path", "url"},
                        until : 0 .. now' + TTL]
    BY <1>1, PlaybackAssumption DEF LinkInvariant, LinkKeepsItsPromise, TypeOK
  <2> QED
    BY <1>1, <2>1, <2>2 DEF LinkInvariant, LinkKeepsItsPromise, TypeOK
<1>3. LinkLivesAsPromised'
  <2> SUFFICES ASSUME NEW l \in Links, reply[l] = "link_expired"
               PROVE  now + 1 > link[l][1].minted + TTL - Second
    BY <1>1 DEF LinkLivesAsPromised
  <2>1. link[l] # <<>> /\ now > link[l][1].minted + TTL - Second
    BY DEF LinkInvariant, LinkKeepsItsPromise, LinkLivesAsPromised
  <2> QED
    BY <1>1, <2>1, LinkShape, PlaybackAssumption
<1>4. OnlyCompleteSetPlays' /\ AccessBounded'
  BY <1>1 DEF LinkInvariant, LinkKeepsItsPromise, OnlyCompleteSetPlays,
              AccessBounded
<1>5. ASSUME NEW l \in Links, link[l] # <<>> PROVE link[l][1].minted <= now'
  BY <1>1, <1>5, LinkShape
<1> QED
  BY <1>1, <1>2, <1>3, <1>4, <1>5 DEF LinkInvariant, LinkKeepsItsPromise

\* A link is minted once, before anything is held with it.
LEMMA CreateLinks ==
    ASSUME LinkInvariant, NEW l \in Links, NEW file \in DOMAIN Package,
           CreatePlaybackLink(l, file)
    PROVE  LinkInvariant'
<1> DEFINE row == [minted |-> now, claim |-> (now + TTL) \div Second]
<1>1. /\ link[l] = <<>> /\ link' = [link EXCEPT ![l] = <<row>>]
      /\ held' = held \cup {Path(l, file)} /\ UNCHANGED <<now, set, request, played, reply>>
  BY DEF CreatePlaybackLink, Mint
<1>2. /\ now \in Nat /\ now \in 0 .. MaxTime /\ now + TTL \in Nat
      /\ row \in LinkRow /\ row.minted = now /\ row.claim = (now + TTL) \div Second
  <2>1. now \in 0 .. MaxTime
    BY DEF LinkInvariant, LinkKeepsItsPromise, TypeOK
  <2>2. now \in Nat /\ now + TTL \in Nat
    BY <2>1, PlaybackAssumption
  <2>3. (now + TTL) \div Second \in Nat
    BY <2>2, PlaybackAssumption, Division
  <2> QED
    BY <2>1, <2>2, <2>3 DEF LinkRow
<1>3. /\ link' \in [Links -> {<<>>} \cup {<<r>> : r \in LinkRow}]
      /\ link'[l] = <<row>> /\ link'[l][1] = row /\ link'[l] # <<>> /\ Len(link'[l]) = 1
      /\ \A m \in Links : m # l => link'[m] = link[m]
  BY <1>1, <1>2 DEF LinkInvariant
<1>4. request[l] = <<>> /\ reply[l] = "none" /\ \A h \in held : h.link # l
  BY <1>1 DEF LinkInvariant
<1>5. /\ \A h \in held' : h \in held \/ h = Path(l, file)
      /\ Path(l, file).link = l /\ Path(l, file).name = file /\ Path(l, file).via = "path"
  BY <1>1 DEF Path
<1>6. TypeOK'
  <2>1. Path(l, file) \in [link : Links, name : Names, via : {"path", "url"},
                           until : 0 .. now + TTL]
    BY <1>2 DEF Path, Names
  <2>2. held' \subseteq [link : Links, name : Names, via : {"path", "url"},
                         until : 0 .. now' + TTL]
    BY <1>1, <2>1 DEF LinkInvariant, LinkKeepsItsPromise, TypeOK
  <2>3. ASSUME NEW m \in Links PROVE Len(link'[m]) <= 1 /\ Len(request'[m]) <= Len(link'[m])
    BY <1>1, <1>3, <1>4 DEF LinkInvariant, LinkKeepsItsPromise, TypeOK
  <2> QED
    BY <1>1, <2>2, <2>3 DEF LinkInvariant, LinkKeepsItsPromise, TypeOK
<1>7. OnlyCompleteSetPlays'
  BY <1>1, <1>5 DEF LinkInvariant, LinkKeepsItsPromise, OnlyCompleteSetPlays
<1>8. LinkLivesAsPromised' /\ AccessBounded'
  <2>1. \A h \in held : h.link \in Links
    BY DEF LinkInvariant, LinkKeepsItsPromise, TypeOK
  <2> QED
    BY <1>1, <1>3, <1>4, <1>5, <2>1
       DEF LinkInvariant, LinkKeepsItsPromise, LinkLivesAsPromised, AccessBounded
<1>9. /\ \A m \in Links :
           /\ link'[m] # <<>> => /\ link'[m][1].minted <= now
                                 /\ link'[m][1].claim = (link'[m][1].minted + TTL) \div Second
           /\ request[m] # <<>> => /\ link'[m] # <<>>
                                   /\ request[m][1].since <= link'[m][1].claim * Second
           /\ reply[m] # "none" => link'[m] # <<>>
  BY <1>2, <1>3, <1>4 DEF LinkInvariant
<1>10. \A h \in held' : link'[h.link] # <<>>
  <2>1. \A h \in held : h.link \in Links /\ h.link # l /\ link[h.link] # <<>>
    BY <1>4 DEF LinkInvariant, LinkKeepsItsPromise, TypeOK
  <2> QED
    BY <1>3, <1>5, <2>1
<1> QED
  BY <1>1, <1>3, <1>6, <1>7, <1>8, <1>9, <1>10 DEF LinkInvariant, LinkKeepsItsPromise

\* A request is let in while the claim has not passed; one that is turned away
\* comes later than the lifetime less a second.
LEMMA RequestLinks ==
    ASSUME LinkInvariant, NEW l \in Links, NEW file \in DOMAIN Package, Request(l, file)
    PROVE  LinkInvariant'
<1>1. /\ link[l] # <<>> /\ request[l] = <<>> /\ UNCHANGED <<now, set, link, held, played>>
      /\ now \in Nat
  BY PlaybackAssumption DEF Request, LinkInvariant, LinkKeepsItsPromise, TypeOK
<1>2. OnlyCompleteSetPlays' /\ AccessBounded'
  BY <1>1 DEF LinkInvariant, LinkKeepsItsPromise, OnlyCompleteSetPlays,
              AccessBounded
<1>3. CASE Verify(l)
  <2> DEFINE row == [file |-> file, since |-> now]
  <2>1. request' = [request EXCEPT ![l] = <<row>>] /\ reply' = reply
    BY <1>3 DEF Request
  <2>2. /\ row \in RequestRow /\ row.file = file /\ row.since = now
        /\ request' \in [Links -> {<<>>} \cup {<<r>> : r \in RequestRow}]
        /\ request'[l][1] = row /\ Len(request'[l]) = 1
        /\ \A m \in Links : m # l => request'[m] = request[m]
    BY <1>1, <2>1 DEF LinkInvariant, RequestRow
  <2>3. TypeOK'
    <3>1. Len(request'[l]) <= Len(link'[l])
      BY <1>1, <2>2, LinkShape
    <3>2. /\ request'[l][1].file \in DOMAIN Package /\ request'[l][1].since \in 0 .. now'
          /\ now' - request'[l][1].since <= RequestTime
      BY <1>1, <2>2, PlaybackAssumption
    <3> QED
      BY <1>1, <2>1, <2>2, <3>1, <3>2 DEF LinkInvariant, LinkKeepsItsPromise, TypeOK
  <2>4. LinkLivesAsPromised'
    BY <1>1, <2>1 DEF LinkInvariant, LinkKeepsItsPromise, LinkLivesAsPromised
  <2>5. now <= link[l][1].claim * Second
    BY <1>3 DEF Verify
  <2> QED
    BY <1>1, <1>2, <2>1, <2>2, <2>3, <2>4, <2>5 DEF LinkInvariant, LinkKeepsItsPromise
<1>4. CASE ~Verify(l)
  <2>1. reply' = [reply EXCEPT ![l] = "link_expired"] /\ request' = request
    BY <1>4 DEF Request
  <2>2. /\ reply' \in [Links -> {"none", "link_expired", "not_ready", "served"}]
        /\ \A m \in Links : m # l => reply'[m] = reply[m]
    BY <2>1 DEF LinkInvariant
  <2>3. TypeOK'
    BY <1>1, <2>1, <2>2 DEF LinkInvariant, LinkKeepsItsPromise, TypeOK
  <2>4. now > link[l][1].minted + TTL - Second
    BY <1>1, <1>4, LinkShape, PlaybackAssumption DEF Verify
  <2>5. LinkLivesAsPromised'
    BY <1>1, <2>2, <2>4 DEF LinkInvariant, LinkKeepsItsPromise, LinkLivesAsPromised
  <2> QED
    BY <1>1, <1>2, <2>1, <2>2, <2>3, <2>5 DEF LinkInvariant, LinkKeepsItsPromise
<1> QED
  BY <1>3, <1>4

\* What is handed out leads back here or is signed now, and is of the package.
LEMMA Rewritten ==
    ASSUME LinkInvariant, NEW l \in Links, request[l] # <<>>,
           NEW h \in UNION { Rewrite(l, request[l][1].file, Package[request[l][1].file][i]) :
                             i \in DOMAIN Package[request[l][1].file] }
    PROVE  \E name \in Names : h \in {Path(l, name), PresignGet(l, name)}
<1> DEFINE file == request[l][1].file
<1>1. file \in DOMAIN Package
  BY RequestShape
<1>2. PICK i \in DOMAIN Package[file] : h \in Rewrite(l, file, Package[file][i])
  OBVIOUS
<1>3. /\ Package[file][i].form # "plain"
      /\ h \in {Path(l, Package[file][i].name), PresignGet(l, Package[file][i].name)}
  BY <1>2 DEF Rewrite, Resolve
<1>4. Package[file][i].name \in Names
  BY <1>1, <1>3, PlaybackAssumption DEF Names
<1> QED
  BY <1>3, <1>4

\* Only a complete set is served, with URLs that run out a lifetime after the request,
\* which came while the link was good.
LEMMA HandleLinks ==
    ASSUME LinkInvariant, NEW l \in Links, HandlePlayback(l)
    PROVE  LinkInvariant'
<1>1. /\ request[l] # <<>> /\ UNCHANGED <<now, set, link, played>>
      /\ request' = [request EXCEPT ![l] = <<>>]
      /\ link[l] # <<>> /\ now \in Nat
  BY PlaybackAssumption DEF HandlePlayback, LinkInvariant, LinkKeepsItsPromise, TypeOK
<1>2. /\ reply' = [reply EXCEPT ![l] = "not_ready"] \/ reply' = [reply EXCEPT ![l] = "served"]
      /\ reply' \in [Links -> {"none", "link_expired", "not_ready", "served"}]
      /\ \A m \in Links : reply'[m] = "link_expired" => reply[m] = "link_expired"
      /\ \A m \in Links : m # l => reply'[m] = reply[m]
  <2>1. reply' = [reply EXCEPT ![l] = "not_ready"] \/ reply' = [reply EXCEPT ![l] = "served"]
    BY DEF HandlePlayback
  <2> QED
    BY <2>1 DEF LinkInvariant
<1>3. /\ request' \in [Links -> {<<>>} \cup {<<r>> : r \in RequestRow}]
      /\ request'[l] = <<>> /\ Len(request'[l]) = 0
      /\ \A m \in Links : m # l => request'[m] = request[m]
  BY <1>1 DEF LinkInvariant
<1>4. ASSUME NEW h \in held', h \notin held
      PROVE  /\ set = "complete"
             /\ \E name \in Names : h \in {Path(l, name), PresignGet(l, name)}
  BY <1>1, <1>4, Rewritten DEF HandlePlayback
<1>5. ASSUME NEW h \in held', h \notin held
      PROVE  /\ h \in [link : Links, name : Names, via : {"path", "url"},
                       until : 0 .. now + TTL]
             /\ h.link = l /\ (h.via = "url" => h.until = now + TTL)
  <2>1. PICK name \in Names : h \in {Path(l, name), PresignGet(l, name)}
    BY <1>4, <1>5
  <2>2. now + TTL \in Nat /\ 0 \in 0 .. now + TTL /\ now + TTL \in 0 .. now + TTL
    BY <1>1, PlaybackAssumption
  <2> QED
    BY <2>1, <2>2 DEF PresignGet, Path
<1>6. TypeOK'
  <2>1. held' \subseteq [link : Links, name : Names, via : {"path", "url"},
                         until : 0 .. now + TTL]
    BY <1>5 DEF LinkInvariant, LinkKeepsItsPromise, TypeOK
  <2>2. ASSUME NEW m \in Links PROVE Len(request'[m]) <= Len(link'[m])
    BY <1>1, <1>3, LinkShape DEF LinkInvariant, LinkKeepsItsPromise, TypeOK
  <2> QED
    BY <1>1, <1>2, <1>3, <2>1, <2>2 DEF LinkInvariant, LinkKeepsItsPromise, TypeOK
<1>7. OnlyCompleteSetPlays'
  BY <1>1, <1>4 DEF LinkInvariant, LinkKeepsItsPromise, OnlyCompleteSetPlays
<1>9. LinkLivesAsPromised'
  BY <1>1, <1>2 DEF LinkInvariant, LinkKeepsItsPromise, LinkLivesAsPromised
<1>10. AccessBounded'
  <2>1. request[l][1].since \in Nat /\ now - request[l][1].since <= RequestTime
    BY <1>1, RequestShape DEF LinkInvariant, LinkKeepsItsPromise, TypeOK
  <2>2. now + TTL <= link[l][1].minted + 2 * TTL + RequestTime
    <3>1. link[l][1].minted \in Nat /\ TTL \in Nat /\ RequestTime \in Nat
      BY <1>1, LinkShape, PlaybackAssumption
    <3>2. request[l][1].since <= link[l][1].minted + TTL
      <4>1. /\ link[l][1].claim * Second \in Nat
            /\ link[l][1].claim * Second <= link[l][1].minted + TTL
        BY <1>1, LinkShape
      <4>2. request[l][1].since <= link[l][1].claim * Second
        BY <1>1 DEF LinkInvariant
      <4> QED
        BY <2>1, <3>1, <4>1, <4>2
    <3>3. now \in Nat
      BY <1>1
    <3> QED
      BY <2>1, <3>1, <3>2, <3>3
  <2>3. ASSUME NEW h \in held', h.via = "url"
        PROVE  h.until <= link[h.link][1].minted + 2 * TTL + RequestTime
    BY <1>5, <2>2, <2>3 DEF LinkInvariant, LinkKeepsItsPromise, AccessBounded
  <2> QED
    BY <1>1, <2>3 DEF AccessBounded
<1>11. \A h \in held' : link'[h.link] # <<>>
  BY <1>1, <1>5 DEF LinkInvariant
<1> QED
  BY <1>1, <1>2, <1>3, <1>6, <1>7, <1>9, <1>10, <1>11 DEF LinkInvariant,
     LinkKeepsItsPromise

LEMMA LinkStep == LinkInvariant /\ [Next]_vars => LinkInvariant'
<1> SUFFICES ASSUME LinkInvariant, [Next]_vars PROVE LinkInvariant'
  OBVIOUS
<1>1. ASSUME NEW l \in Links, NEW name \in Names, FetchMedia(l, name) PROVE LinkInvariant'
  BY <1>1 DEF FetchMedia, LinkInvariant, LinkKeepsItsPromise, TypeOK,
     OnlyCompleteSetPlays, LinkLivesAsPromised, AccessBounded
<1>2. CASE UNCHANGED vars
  BY <1>2 DEF vars, LinkInvariant, LinkKeepsItsPromise, TypeOK, OnlyCompleteSetPlays,
     LinkLivesAsPromised, AccessBounded
<1> QED
  BY <1>1, <1>2, CloseSetLinks, TickLinks, CreateLinks, RequestLinks,
     HandleLinks DEF Next

\* handlePlayback and token.go: whatever the package, whenever a link is minted and
\* used, and however requests, the clock and the end of the job interleave, only a
\* complete set is delivered, no player is turned away before the promised lifetime
\* less a second, and access ends.
THEOREM LinksKeepTheirPromise == Spec => []LinkKeepsItsPromise
<1>1. LinkInvariant => LinkKeepsItsPromise
  BY DEF LinkInvariant
<1> QED
  BY <1>1, LinkInit, LinkStep, PTL DEF Spec

----------------------------------------------------------------------------
(* Keyframes *)

KeyframesSpec == KeyframesInit /\ [][EncodeFrame]_<<fps, frame, last, forced, offgrid>>

\* What a frame and an interval last, in units of 1/num seconds.
FrameTime == fps[2]
IntervalTime == Interval * fps[1]

\* A segment that starts with a forced keyframe: the grid has not asked for the
\* next one, and the group is not full, before the next frame.
InSegment ==
    /\ (forced - 1) * IntervalTime <= last * FrameTime
    /\ (last - 1) * FrameTime < (forced - 1) * IntervalTime
    /\ (frame - 1) * FrameTime < forced * IntervalTime
    /\ frame - last <= Gop(Interval, fps)
    /\ Cardinality(offgrid) <= forced - 1 /\ \A f \in offgrid : f < last

\* The group was full a frame before the grid asks for a keyframe.
BeforeForced ==
    /\ last = frame - 1 /\ last * FrameTime < forced * IntervalTime
    /\ forced * IntervalTime <= frame * FrameTime
    /\ Cardinality(offgrid) <= forced /\ \A f \in offgrid : f <= last
    /\ FrameTime # 1

\* Keyframes keep to the grid because a group is an interval, rounded down to whole
\* frames. At a rate so low that every frame is on the grid there are no others.
GridInvariant ==
    /\ fps \in Rates /\ frame \in Nat /\ forced \in Nat /\ last \in Int
    /\ offgrid \subseteq Nat /\ IsFiniteSet(offgrid)
    /\ FrameTime = 1 => offgrid = {}
    /\ frame = 0 => last = -1 /\ forced = 0 /\ offgrid = {}
    /\ frame > 0 => /\ last \in 0 .. frame - 1 /\ forced >= 1
                    /\ IntervalTime < FrameTime => forced = frame /\ last = frame - 1 /\ offgrid = {}
                    /\ FrameTime <= IntervalTime => InSegment \/ BeforeForced

\* Both are positive, and a group is as many frames as fit in an interval.
LEMMA GroupFits ==
    ASSUME fps \in Rates
    PROVE  /\ FrameTime \in Nat \ {0} /\ IntervalTime \in Nat \ {0}
           /\ Gop(Interval, fps) \in Nat \ {0}
           /\ FrameTime <= IntervalTime =>
                /\ Gop(Interval, fps) * FrameTime <= IntervalTime
                /\ IntervalTime < (Gop(Interval, fps) + 1) * FrameTime
<1>1. fps[1] \in Nat \ {0} /\ fps[2] \in Nat \ {0} /\ Interval \in Nat \ {0}
  BY KeyframesAssumption
<1>2. FrameTime \in Nat \ {0} /\ IntervalTime \in Nat \ {0}
  BY <1>1 DEF FrameTime, IntervalTime
<1>3. EffectiveFPS(fps) = fps
  BY <1>1 DEF EffectiveFPS, NoRate
<1> DEFINE g == IntervalTime \div FrameTime
<1>4. g \in Nat /\ g * FrameTime <= IntervalTime /\ IntervalTime < g * FrameTime + FrameTime
  BY <1>2, Division
<1>5. Gop(Interval, fps) = IF g < 1 THEN 1 ELSE g
  BY <1>3 DEF Gop, FrameTime, IntervalTime
<1>6. FrameTime <= IntervalTime => g >= 1
  BY <1>2, <1>4
<1>7. (g + 1) * FrameTime = g * FrameTime + FrameTime
  BY <1>2, <1>4
<1> HIDE DEF g
<1> QED
  BY <1>2, <1>4, <1>5, <1>6, <1>7

\* The grid asks for a keyframe: it starts a segment.
LEMMA SegmentStarts ==
    ASSUME NEW a \in Nat \ {0}, NEW b \in Nat \ {0}, a <= b,
           NEW k \in Nat, NEW n \in Nat, n * a >= k * b, (n - 1) * a < k * b
    PROVE  (k + 1 - 1) * b <= n * a /\ (n + 1 - 1) * a < (k + 1) * b
OBVIOUS

\* The group is full although the grid has not asked for a keyframe: it does so at
\* the next frame, and frames do not divide the interval.
LEMMA GroupFull ==
    ASSUME NEW a \in Nat \ {0}, NEW b \in Nat \ {0}, NEW g \in Nat \ {0},
           g * a <= b, b < (g + 1) * a,
           NEW k \in Nat \ {0}, NEW m \in Nat, (k - 1) * b <= m * a, (m + g) * a < k * b
    PROVE  k * b <= (m + g + 1) * a /\ a # 1
<1>1. (m + g + 1) * a = m * a + (g + 1) * a /\ (m + g) * a = m * a + g * a
  OBVIOUS
<1>2. (k - 1) * b = k * b - b
  OBVIOUS
<1>3. k * b <= (m + g + 1) * a
  BY <1>1, <1>2
<1>4. ASSUME a = 1 PROVE FALSE
  <2>1. g = b /\ m + g < k * b /\ k * b - b <= m
    BY <1>2, <1>4
  <2> QED
    BY <2>1
<1> QED
  BY <1>3, <1>4

\* A step encodes one frame; the rate, and with it the grid, stays.
LEMMA GridStep ==
    ASSUME GridInvariant, EncodeFrame
    PROVE  GridInvariant'
<1> DEFINE G == Gop(Interval, fps)
<1>1. /\ fps \in Rates /\ frame \in Nat /\ forced \in Nat /\ last \in Int
      /\ offgrid \subseteq Nat /\ IsFiniteSet(offgrid) /\ Cardinality(offgrid) \in Nat
  BY FS_CardinalityType DEF GridInvariant
<1>2. /\ FrameTime \in Nat \ {0} /\ IntervalTime \in Nat \ {0} /\ G \in Nat \ {0}
      /\ FrameTime <= IntervalTime =>
           G * FrameTime <= IntervalTime /\ IntervalTime < (G + 1) * FrameTime
  BY <1>1, GroupFits
<1>3. /\ fps' = fps /\ frame' = frame + 1
      /\ FrameTime' = FrameTime /\ IntervalTime' = IntervalTime
      /\ Gop(Interval, fps)' = G
  BY DEF EncodeFrame, FrameTime, IntervalTime, Gop, EffectiveFPS
<1>4. Forces(frame) <=> frame * FrameTime >= forced * IntervalTime
  BY <1>1, KeyframesAssumption DEF Forces, FrameTime, IntervalTime
<1>5. frame + 1 \in Nat /\ frame + 1 > 0
  BY <1>1
<1> HIDE DEF G
<1>6. CASE frame = 0
  <2>1. last = -1 /\ forced = 0 /\ offgrid = {}
    BY <1>6 DEF GridInvariant
  <2>2. Forces(frame)
    BY <1>2, <1>4, <1>6, <2>1
  <2>3. last' = 0 /\ forced' = 1 /\ offgrid' = {}
    BY <1>6, <2>1, <2>2 DEF EncodeFrame
  <2>4. Cardinality({}) = 0
    BY FS_EmptySet, Zenon
  <2>5. InSegment'
    BY <1>2, <1>3, <1>6, <2>3, <2>4 DEF InSegment, G
  <2>6. frame' = 1 /\ last' \in 0 .. frame' - 1 /\ forced' >= 1
    BY <1>3, <1>6, <2>3
  <2> QED
    BY <1>1, <1>3, <2>3, <2>5, <2>6, FS_EmptySet DEF GridInvariant
<1>7. CASE frame > 0 /\ IntervalTime < FrameTime
  <2>1. forced = frame /\ last = frame - 1 /\ offgrid = {}
    BY <1>7 DEF GridInvariant
  <2>2. Forces(frame)
    BY <1>1, <1>2, <1>4, <1>7, <2>1
  <2>3. last' = frame /\ forced' = frame + 1 /\ offgrid' = {}
    BY <2>1, <2>2 DEF EncodeFrame
  <2>4. last' \in 0 .. frame' - 1 /\ forced' >= 1 /\ last' = frame' - 1
    BY <1>1, <1>3, <2>3
  <2> QED
    BY <1>1, <1>2, <1>3, <1>5, <1>7, <2>3, <2>4, FS_EmptySet DEF GridInvariant
<1>8. CASE frame > 0 /\ FrameTime <= IntervalTime
  <2>1. /\ last \in 0 .. frame - 1 /\ forced \in Nat \ {0} /\ (InSegment \/ BeforeForced)
        /\ FrameTime = 1 => offgrid = {}
    BY <1>1, <1>8 DEF GridInvariant
  <2>2. /\ (frame - 1) * FrameTime < forced * IntervalTime
        /\ \A f \in offgrid : f <= last
        /\ Cardinality(offgrid) <= forced
    BY <1>1, <2>1 DEF InSegment, BeforeForced
  <2>3. CASE Forces(frame)
    <3>1. last' = frame /\ forced' = forced + 1 /\ offgrid' = offgrid
      BY <2>3 DEF EncodeFrame
    <3>2. /\ (forced + 1 - 1) * IntervalTime <= frame * FrameTime
          /\ (frame + 1 - 1) * FrameTime < (forced + 1) * IntervalTime
      BY <1>1, <1>2, <1>4, <1>8, <2>2, <2>3, SegmentStarts
    <3>3. InSegment'
      <4>1. frame + 1 - frame <= G /\ forced + 1 - 1 = forced
        BY <1>1, <1>2
      <4>2. \A f \in offgrid : f < frame
        BY <1>1, <2>1, <2>2
      <4>3. (frame - 1) * FrameTime < (forced + 1 - 1) * IntervalTime
        BY <2>2, <4>1
      <4> QED
        BY <1>1, <1>3, <2>2, <3>1, <3>2, <4>1, <4>2, <4>3 DEF InSegment
    <3>4. last' \in 0 .. frame' - 1 /\ forced' >= 1
      BY <1>1, <1>3, <3>1
    <3> QED
      BY <1>1, <1>2, <1>3, <1>5, <1>8, <2>1, <3>1, <3>3, <3>4 DEF GridInvariant
  <2>4. CASE ~Forces(frame) /\ GroupIsFull(frame)
    <3>1. last' = frame /\ forced' = forced /\ offgrid' = offgrid \cup {frame}
      BY <2>4 DEF EncodeFrame
    <3>2. InSegment
      BY <1>1, <1>4, <2>1, <2>4, <1>2 DEF BeforeForced
    <3>3. frame = last + G
      BY <1>1, <1>2, <2>1, <2>4, <3>2 DEF InSegment, GroupIsFull, G
    <3>4. forced * IntervalTime <= (last + G + 1) * FrameTime /\ FrameTime # 1
      <4>1. (last + G) * FrameTime < forced * IntervalTime
        BY <1>1, <1>2, <1>4, <2>4, <3>3
      <4>2. last \in Nat /\ (forced - 1) * IntervalTime <= last * FrameTime
        BY <1>1, <2>1, <3>2 DEF InSegment
      <4> QED
        BY <1>2, <1>8, <2>1, <4>1, <4>2, GroupFull
    <3>5. /\ IsFiniteSet(offgrid \cup {frame})
          /\ Cardinality(offgrid \cup {frame}) <= forced
      <4>1. /\ IsFiniteSet(offgrid \cup {frame})
            /\ Cardinality(offgrid \cup {frame}) =
                 IF frame \in offgrid THEN Cardinality(offgrid) ELSE Cardinality(offgrid) + 1
        BY <1>1, FS_AddElement
      <4> QED
        BY <1>1, <3>2, <4>1 DEF InSegment
    <3>6. BeforeForced'
      <4>1. frame = frame + 1 - 1 /\ last + G + 1 = frame + 1
        BY <1>1, <1>2, <3>3
      <4>2. frame * FrameTime < forced * IntervalTime
        BY <1>1, <1>2, <1>4, <2>4
      <4>3. \A f \in offgrid \cup {frame} : f <= frame
        BY <1>1, <2>1, <2>2
      <4> QED
        BY <1>1, <1>3, <3>1, <3>4, <3>5, <4>1, <4>2, <4>3 DEF BeforeForced
    <3>7. last' \in 0 .. frame' - 1 /\ forced' >= 1
      BY <1>1, <1>3, <2>1, <3>1
    <3> QED
      BY <1>1, <1>2, <1>3, <1>5, <1>8, <3>1, <3>4, <3>5, <3>6, <3>7 DEF GridInvariant
  <2>5. CASE ~Forces(frame) /\ ~GroupIsFull(frame)
    <3>1. last' = last /\ forced' = forced /\ offgrid' = offgrid
      BY <2>5 DEF EncodeFrame
    <3>2. InSegment
      BY <1>1, <1>4, <2>1, <2>5, <1>2 DEF BeforeForced
    <3>3. frame - last < G
      BY <1>1, <1>2, <2>1, <2>5 DEF GroupIsFull, G
    <3>4. InSegment'
      <4>1. frame + 1 - last <= G /\ frame + 1 - 1 = frame
        BY <1>1, <1>2, <3>3
      <4>2. frame * FrameTime < forced * IntervalTime
        BY <1>1, <1>2, <1>4, <2>5
      <4> QED
        BY <1>1, <1>3, <3>1, <3>2, <4>1, <4>2 DEF InSegment
    <3>5. last' \in 0 .. frame' - 1 /\ forced' >= 1
      BY <1>1, <1>3, <2>1, <3>1
    <3> QED
      BY <1>1, <1>2, <1>3, <1>5, <1>8, <2>1, <3>1, <3>4, <3>5 DEF GridInvariant
  <2> QED
    BY <2>3, <2>4, <2>5
<1> QED
  BY <1>1, <1>2, <1>6, <1>7, <1>8

\* args.go: at every frame rate and interval the group length derived from the
\* interval keeps to the grid the segments are cut on: none off it at a whole rate,
\* and otherwise at most one in a segment, right before the one that is forced.
THEOREM KeyframesKeepToTheGrid == KeyframesSpec => []KeyframesOnGrid
<1>1. KeyframesInit => GridInvariant
  BY FS_EmptySet DEF KeyframesInit, GridInvariant
<1>2. GridInvariant /\ [EncodeFrame]_<<fps, frame, last, forced, offgrid>> => GridInvariant'
  <2>1. CASE UNCHANGED <<fps, frame, last, forced, offgrid>>
    BY <2>1 DEF GridInvariant, InSegment, BeforeForced, FrameTime, IntervalTime, Gop,
       EffectiveFPS
  <2> QED
    BY <2>1, GridStep
<1>3. GridInvariant => KeyframesOnGrid
  <2> SUFFICES ASSUME GridInvariant PROVE KeyframesOnGrid
    OBVIOUS
  <2>1. /\ fps \in Rates /\ frame \in Nat /\ forced \in Nat /\ last \in Int /\ offgrid \subseteq Nat
        /\ FrameTime \in Nat \ {0} /\ IntervalTime \in Nat \ {0} /\ Cardinality(offgrid) \in Nat
    BY GroupFits, FS_CardinalityType DEF GridInvariant
  <2>2. Cardinality({}) = 0
    BY FS_EmptySet, Zenon
  <2>3. CASE offgrid = {}
    BY <2>1, <2>2, <2>3 DEF KeyframesOnGrid
  <2>4. CASE offgrid # {}
    <3>1. InSegment \/ BeforeForced
      <4>1. frame # 0
        BY <2>4 DEF GridInvariant
      <4>2. frame > 0
        BY <2>1, <4>1
      <4>3. ~(IntervalTime < FrameTime)
        BY <2>4, <4>2 DEF GridInvariant
      <4>4. FrameTime <= IntervalTime
        BY <2>1, <4>3
      <4> QED
        BY <4>2, <4>4 DEF GridInvariant
    <3>2. /\ Cardinality(offgrid) <= forced
          /\ \A f \in offgrid : f + 1 < frame => last >= f + 1
      BY <2>1, <3>1 DEF InSegment, BeforeForced
    <3> QED
      BY <3>2 DEF KeyframesOnGrid, GridInvariant, FrameTime
  <2> QED
    BY <2>3, <2>4
<1> QED
  BY <1>1, <1>2, <1>3, PTL DEF KeyframesSpec

----------------------------------------------------------------------------
(* The scrubbing strip *)

\* Division rounded up: as many groups of b as hold a, and none of them empty.
LEMMA DivisionUp ==
    ASSUME NEW a \in Nat, NEW b \in Nat \ {0}, NEW q, q = (a + b - 1) \div b
    PROVE  q \in Nat /\ a <= q * b /\ q * b <= a + b - 1
<1>1. a + b - 1 \in Nat
  OBVIOUS
<1>2. q \in Nat /\ q * b <= a + b - 1 /\ a + b - 1 < q * b + b
  BY <1>1, Division
<1>3. q * b \in Nat
  BY <1>2
<1> QED
  BY <1>2, <1>3

\* The interval is the whole number of seconds next above a limit's share.
LEMMA IntervalRoundsUp ==
    ASSUME ms \in Nat
    PROVE  /\ Seconds \in Nat /\ Seconds * 1000 <= ms /\ ms < Seconds * 1000 + 1000
           /\ ThumbnailInterval \in Nat \ {0}
           /\ Seconds <= ThumbnailInterval * MaxThumbnails
           /\ Seconds > 0 => ThumbnailInterval * MaxThumbnails <= Seconds + MaxThumbnails - 1
<1>1. Seconds \in Nat /\ Seconds * 1000 <= ms /\ ms < Seconds * 1000 + 1000
  BY Division DEF Seconds
<1> DEFINE q == (Seconds + MaxThumbnails - 1) \div MaxThumbnails
<1>2. MaxThumbnails \in Nat \ {0}
  BY SpriteAssumption
<1>3. /\ q \in Nat /\ Seconds <= q * MaxThumbnails
      /\ q * MaxThumbnails <= Seconds + MaxThumbnails - 1
  <2>1. q = (Seconds + MaxThumbnails - 1) \div MaxThumbnails
    OBVIOUS
  <2> HIDE DEF q
  <2> QED
    BY <1>1, <1>2, <2>1, DivisionUp
<1>4. ThumbnailInterval = IF q <= 1 THEN 1 ELSE q
  <2>1. ThumbnailInterval = IF 1 >= q THEN 1 ELSE q
    BY DEF ThumbnailInterval, Max2, minIntervalS
  <2> QED
    BY <1>3, <2>1
<1> HIDE DEF q
<1>5. Seconds > 0 => q > 0
  BY <1>1, <1>2, <1>3
<1>6. CASE q = 0
  BY <1>1, <1>2, <1>3, <1>4, <1>5, <1>6
<1>7. CASE q > 0
  BY <1>1, <1>2, <1>3, <1>4, <1>7
<1> QED
  BY <1>3, <1>6, <1>7

\* As many thumbnails as whole intervals fit in the programme, at least one.
LEMMA CountFits ==
    ASSUME ms \in Nat
    PROVE  /\ ThumbnailCount \in Nat \ {0}
           /\ Seconds > 0 => /\ ThumbnailCount * ThumbnailInterval <= Seconds
                             /\ Seconds < ThumbnailCount * ThumbnailInterval + ThumbnailInterval
           /\ Seconds = 0 => ThumbnailCount = 1 /\ ThumbnailInterval = 1
<1> DEFINE T == ThumbnailInterval
           n == Seconds \div T
<1>1. Seconds \in Nat /\ T \in Nat \ {0}
  BY IntervalRoundsUp
<1>2. n \in Nat /\ n * T <= Seconds /\ Seconds < n * T + T
  BY <1>1, Division
<1>3. ThumbnailCount = IF n <= 1 THEN 1 ELSE n
  <2>1. ThumbnailCount = IF 1 >= n THEN 1 ELSE n
    BY DEF ThumbnailCount, Max2
  <2> QED
    BY <1>2, <2>1
<1>4. ASSUME Seconds > 0 PROVE T <= Seconds
  <2>1. /\ T * MaxThumbnails <= Seconds + MaxThumbnails - 1 /\ MaxThumbnails \in Nat \ {0}
    BY <1>4, IntervalRoundsUp, SpriteAssumption
  <2>2. ASSUME T > Seconds PROVE FALSE
    <3>1. T * MaxThumbnails >= (Seconds + 1) * MaxThumbnails
      BY <1>1, <2>1, <2>2
    <3>2. (Seconds + 1) * MaxThumbnails = Seconds * MaxThumbnails + MaxThumbnails
      BY <1>1, <2>1
    <3>3. Seconds * MaxThumbnails >= Seconds
      BY <1>1, <2>1
    <3> QED
      BY <1>1, <2>1, <3>1, <3>2, <3>3
  <2> QED
    BY <1>1, <2>2
<1>5. Seconds = 0 => T = 1
  <2> SUFFICES ASSUME Seconds = 0 PROVE T = 1
    OBVIOUS
  <2>1. (0 + MaxThumbnails - 1) \div MaxThumbnails = 0
    BY SpriteAssumption
  <2> QED
    BY <2>1 DEF ThumbnailInterval, Max2, minIntervalS
<1> HIDE DEF T, n
<1>6. Seconds > 0 => n >= 1
  BY <1>1, <1>2, <1>4
<1>7. Seconds = 0 => n = 0
  BY <1>1, <1>2
<1> QED
  BY <1>1, <1>2, <1>3, <1>5, <1>6, <1>7 DEF T

\* The sheet has as many columns as it may, and no more rows than it needs.
LEMMA SheetHoldsTiles ==
    ASSUME ms \in Nat
    PROVE  /\ Columns \in Nat \ {0} /\ Rows \in Nat \ {0}
           /\ Columns * (Rows - 1) < ThumbnailCount /\ ThumbnailCount <= Columns * Rows
<1>1. ThumbnailCount \in Nat \ {0} /\ Columns \in Nat \ {0}
  BY CountFits, SpriteAssumption DEF Columns
<1>2. Rows = (ThumbnailCount + Columns - 1) \div Columns
  BY DEF Rows
<1>3. /\ Rows \in Nat /\ ThumbnailCount <= Rows * Columns
      /\ Rows * Columns <= ThumbnailCount + Columns - 1
  BY <1>1, <1>2, DivisionUp
<1>4. Rows # 0
  BY <1>1, <1>3
<1>5. Columns * Rows = Rows * Columns /\ Columns * (Rows - 1) = Rows * Columns - Columns
  BY <1>1, <1>3
<1>6. Rows * Columns \in Nat
  BY <1>1, <1>3
<1> QED
  BY <1>1, <1>3, <1>4, <1>5, <1>6

LEMMA SheetsAreSensible == ASSUME ms \in Nat PROVE SheetIsSensible
<1> DEFINE T == ThumbnailInterval
           n == ThumbnailCount
           M == MaxThumbnails
<1>1. /\ Seconds \in Nat /\ T \in Nat \ {0} /\ M \in Nat \ {0} /\ n \in Nat \ {0}
      /\ Seconds <= T * M /\ (Seconds > 0 => T * M <= Seconds + M - 1)
      /\ Seconds > 0 => n * T <= Seconds /\ Seconds < n * T + T
      /\ Seconds = 0 => n = 1
  BY IntervalRoundsUp, CountFits, SpriteAssumption
<1> HIDE DEF T, n, M
<1>2. n <= M
  <2>1. ASSUME Seconds > 0, n > M PROVE FALSE
    <3>1. n * T >= (M + 1) * T
      BY <1>1, <2>1
    <3>2. (M + 1) * T = T * M + T
      BY <1>1
    <3>3. T * M \in Nat /\ n * T \in Nat
      BY <1>1
    <3> QED
      BY <1>1, <2>1, <3>1, <3>2, <3>3
  <2> QED
    BY <1>1, <2>1
<1>3. ASSUME Seconds >= M, 2 * n < M PROVE FALSE
  <2>1. n * T \in Nat /\ T * M \in Nat /\ Seconds > 0
    BY <1>1, <1>3
  <2>2. T * M >= T * (2 * n + 1)
    BY <1>1, <1>3
  <2>3. T * (2 * n + 1) = 2 * (n * T) + T
    BY <1>1
  <2>4. CASE T = 1
    BY <1>1, <1>3, <2>1, <2>4
  <2>5. CASE T >= 2
    <3>1. (T - 2) * n >= 0 /\ (T - 2) * n = n * T - 2 * n
      BY <1>1, <2>5
    <3>2. (T - 1) * (M - 2 * n - 1) >= 0
      BY <1>1, <1>3, <2>5
    <3>3. (T - 1) * (M - 2 * n - 1) = T * M - 2 * (n * T) - T - M + 2 * n + 1
      BY <1>1
    <3> QED
      BY <1>1, <2>1, <3>1, <3>2, <3>3
  <2> QED
    BY <1>1, <2>4, <2>5
<1>4. Columns * (Rows - 1) < n /\ n <= Columns * Rows
  BY SheetHoldsTiles DEF n
<1>5. 2 * n \in Nat
  BY <1>1
<1> QED
  BY <1>1, <1>2, <1>3, <1>4, <1>5 DEF SheetIsSensible, n, M

\* No two tiles are in the same place, and all of them are on the sheet.
LEMMA TilesArePlaced ==
    ASSUME ms \in Nat
    PROVE  LET n == ThumbnailCount IN
           /\ \A i \in 0 .. n - 1 : i % Columns < Columns /\ i \div Columns < Rows
           /\ Cardinality({ <<i % Columns, i \div Columns>> : i \in 0 .. n - 1 }) = n
<1> DEFINE n == ThumbnailCount
           I == 0 .. n - 1
           Tiles == { <<i % Columns, i \div Columns>> : i \in I }
           place == [i \in I |-> <<i % Columns, i \div Columns>>]
<1>1. /\ n \in Nat \ {0} /\ Columns \in Nat \ {0} /\ Rows \in Nat \ {0}
      /\ n <= Columns * Rows
  BY CountFits, SheetHoldsTiles
<1>2. ASSUME NEW i \in I
      PROVE  /\ i % Columns < Columns /\ i \div Columns < Rows
             /\ i = (i \div Columns) * Columns + (i % Columns)
  <2>1. i \in Nat /\ i < n
    BY <1>1
  <2>2. /\ i % Columns < Columns /\ i % Columns \in Nat
        /\ i = (i \div Columns) * Columns + (i % Columns) /\ i \div Columns \in Nat
    BY <1>1, <2>1
  <2>3. ASSUME i \div Columns >= Rows PROVE FALSE
    <3>1. (i \div Columns) * Columns >= Rows * Columns
      BY <1>1, <2>2, <2>3
    <3>2. Rows * Columns = Columns * Rows /\ Rows * Columns \in Nat
      BY <1>1
    <3>3. (i \div Columns) * Columns \in Nat
      BY <1>1, <2>2
    <3> QED
      BY <1>1, <2>1, <2>2, <3>1, <3>2, <3>3
  <2> QED
    BY <1>1, <2>2, <2>3
<1>3. place \in Surjection(I, Tiles)
  BY DEF Surjection
<1>4. place \in Injection(I, Tiles)
  <2>1. ASSUME NEW i \in I, NEW k \in I, place[i] = place[k] PROVE i = k
    <3>1. i % Columns = k % Columns /\ i \div Columns = k \div Columns
      BY <2>1
    <3>2. i = (i \div Columns) * Columns + (i % Columns)
      BY <1>2
    <3>3. k = (k \div Columns) * Columns + (k % Columns)
      BY <1>2
    <3> QED
      BY <3>1, <3>2, <3>3, Zenon
  <2>2. place \in [I -> Tiles] /\ DOMAIN place = I
    OBVIOUS
  <2> QED
    BY <2>1, <2>2, Zenon DEF Injection, IsInjective
<1>5. IsFiniteSet(I) /\ Cardinality(I) = n
  <2>1. 0 \in Int /\ n - 1 \in Int
    BY <1>1
  <2>2. IsFiniteSet(I) /\ Cardinality(I) = IF 0 > n - 1 THEN 0 ELSE (n - 1) - 0 + 1
    BY <2>1, FS_Interval
  <2>3. ~(0 > n - 1) /\ (n - 1) - 0 + 1 = n
    BY <1>1
  <2> QED
    BY <2>2, <2>3
<1>6. Cardinality(Tiles) = n
  <2> HIDE DEF I, Tiles, place
  <2>1. Cardinality(Tiles) = Cardinality(I)
    BY <1>3, <1>4, <1>5, FS_Surjection
  <2> QED
    BY <1>5, <2>1
<1> QED
  BY <1>2, <1>6

LEMMA IndexesAreExact == ASSUME ms \in Nat PROVE IndexIsExact
<1> DEFINE T == ThumbnailInterval
           n == ThumbnailCount
<1>1. /\ Seconds \in Nat /\ Seconds * 1000 <= ms /\ ms < Seconds * 1000 + 1000
      /\ T \in Nat \ {0} /\ n \in Nat \ {0}
      /\ Seconds > 0 => n * T <= Seconds /\ Seconds < n * T + T
      /\ Seconds = 0 => n = 1 /\ T = 1
  BY IntervalRoundsUp, CountFits
<1>2. ASSUME NEW i \in 0 .. n - 1
      PROVE  /\ SpriteIndex[i].start = i * T /\ SpriteIndex[i].end = (i + 1) * T
             /\ SpriteIndex[i].column = i % Columns /\ SpriteIndex[i].row = i \div Columns
  BY DEF SpriteIndex
<1>3. 0 \in 0 .. n - 1 /\ n - 1 \in 0 .. n - 1 /\ (n - 1) + 1 = n
  BY <1>1
<1>4. SpriteIndex[0].start = 0 /\ SpriteIndex[n - 1].end = n * T
  <2>1. SpriteIndex[0].start = 0 * T /\ SpriteIndex[n - 1].end = ((n - 1) + 1) * T
    BY <1>2, <1>3
  <2>2. 0 * T = 0
    BY <1>1
  <2> QED
    BY <1>3, <2>1, <2>2
<1>5. ASSUME NEW i \in 1 .. n - 1 PROVE SpriteIndex[i].start = SpriteIndex[i - 1].end
  <2>1. i \in 0 .. n - 1 /\ i - 1 \in 0 .. n - 1 /\ (i - 1) + 1 = i
    BY <1>1
  <2> QED
    BY <1>2, <2>1
<1>6. /\ Seconds > 0 => (n * T) * 1000 <= ms
      /\ ms - (n * T) * 1000 < 1000 * (T + 1)
  <2>1. n * T \in Nat /\ ms \in Nat
    BY <1>1
  <2>2. CASE Seconds > 0
    BY <1>1, <2>1, <2>2
  <2>3. CASE Seconds = 0
    BY <1>1, <2>3
  <2> QED
    BY <1>1, <2>2, <2>3
<1>7. { <<SpriteIndex[i].column, SpriteIndex[i].row>> : i \in 0 .. n - 1 }
        = { <<i % Columns, i \div Columns>> : i \in 0 .. n - 1 }
  BY <1>2
<1>8. \A i \in 0 .. n - 1 : SpriteIndex[i].column < Columns /\ SpriteIndex[i].row < Rows
  BY <1>2, TilesArePlaced
<1>9. Cardinality({ <<SpriteIndex[i].column, SpriteIndex[i].row>> : i \in 0 .. n - 1 }) = n
  BY <1>7, TilesArePlaced
<1> QED
  BY <1>4, <1>5, <1>6, <1>8, <1>9 DEF IndexIsExact

\* thumbnail.go: at every duration, and whatever the limit and the width of the
\* sheet, the sheet keeps its limit without being half empty, and the index assigns
\* each moment the region of its own tile.
THEOREM StripsAreRight == ms \in Nat => StripIsRight
  BY SheetsAreSensible, IndexesAreExact DEF StripIsRight

\* args.go and thumbnail.go on one file: as it grows frame by frame it keeps its
\* keyframes on the grid and its strip exact at every length it has on the way.
THEOREM GrowingFilesAreRight == FileSpec => [](KeyframesOnGrid /\ StripIsRight)
<1> DEFINE Timed == ms \in Nat
<1>1. FileInit => Timed /\ KeyframesInit
  BY DEF FileInit
<1>2. [Grow]_fileVars => [EncodeFrame]_<<fps, frame, last, forced, offgrid>>
  BY DEF Grow, fileVars
<1>3. Timed /\ [Grow]_fileVars => Timed'
  BY DEF Grow, fileVars
<1>4. Timed => StripIsRight
  BY StripsAreRight
<1> HIDE DEF Timed
<1> QED
  BY <1>1, <1>2, <1>3, <1>4, KeyframesKeepToTheGrid, PTL DEF FileSpec, KeyframesSpec

----------------------------------------------------------------------------
(* The sizes of renditions *)

\* Even rounds to within one of its argument, and never below 2.
LEMMA EvenIsNear ==
    ASSUME NEW p \in Nat, NEW q \in Nat \ {0}, NEW n, n = Even(p, q)
    PROVE  /\ n \in Nat /\ n % 2 = 0 /\ n >= 2 /\ p - q <= n * q
           /\ n * q < p + q \/ n = 2
<1> DEFINE d == (q - p) \div (2 * q)
<1>1. 2 * q \in Nat \ {0} /\ q - p \in Int
  OBVIOUS
<1>2. d \in Int /\ d * (2 * q) <= q - p /\ q - p < d * (2 * q) + 2 * q
  <2>1. \A x \in Int, y \in Nat \ {0} : x \div y \in Int /\ (x \div y) * y <= x /\ x < (x \div y) * y + y
    OBVIOUS
  <2> QED
    BY <1>1, <2>1
<1>3. n = IF 2 * (-d) < 2 THEN 2 ELSE 2 * (-d)
  BY DEF Even
<1> HIDE DEF d
<1>4. d * (2 * q) = -((2 * (-d)) * q) /\ (2 * (-d)) * q \in Int
  BY <1>2
<1>5. CASE 2 * (-d) < 2
  <2>1. n = 2 /\ -d <= 0
    BY <1>2, <1>3, <1>5
  <2>2. (2 * (-d)) * q <= 0
    BY <1>2, <2>1
  <2> QED
    BY <1>2, <1>4, <2>1, <2>2
<1>6. CASE ~(2 * (-d) < 2)
  BY <1>2, <1>3, <1>4, <1>6
<1> QED
  BY <1>5, <1>6

\* A size that a dimension bounds is bounded by it after rounding, and the larger
\* of two sizes stays the larger.
LEMMA EvenIsBounded ==
    ASSUME NEW p \in Nat, NEW q \in Nat \ {0}, NEW m \in Nat, m >= 2, p <= m * q
    PROVE  Even(p, q) <= m
<1> DEFINE n == Even(p, q)
<1>1. n \in Nat /\ (n * q < p + q \/ n = 2)
  BY EvenIsNear
<1> HIDE DEF n
<1>2. ASSUME n > m PROVE FALSE
  <2>1. n * q < p + q
    BY <1>1, <1>2
  <2>2. n * q >= (m + 1) * q
    BY <1>1, <1>2
  <2>3. (m + 1) * q = m * q + q
    OBVIOUS
  <2> QED
    BY <1>1, <2>1, <2>2, <2>3
<1> QED
  BY <1>1, <1>2 DEF n

LEMMA EvenIsMonotone ==
    ASSUME NEW p \in Nat, NEW q \in Nat \ {0}, NEW x \in Nat, NEW y \in Nat \ {0},
           p * y <= x * q
    PROVE  Even(p, q) <= Even(x, y)
<1> DEFINE n == Even(p, q)
           m == Even(x, y)
<1>1. n \in Nat /\ n % 2 = 0 /\ (n * q < p + q \/ n = 2)
  BY EvenIsNear
<1>2. m \in Nat /\ m % 2 = 0 /\ m >= 2 /\ x - y <= m * y
  BY EvenIsNear
<1> HIDE DEF n, m
<1>3. ASSUME n > m PROVE FALSE
  <2>1. n >= m + 2 /\ n * q < p + q
    BY <1>1, <1>2, <1>3
  <2>2. (n * q) * y < (p + q) * y
    BY <1>1, <2>1
  <2>3. (x - y) * q <= (m * y) * q
    BY <1>2
  <2>4. (n * q) * y >= ((m + 2) * q) * y
    <3>1. n * (q * y) >= (m + 2) * (q * y)
      BY <1>1, <1>2, <2>1
    <3> QED
      BY <1>1, <1>2, <3>1
  <2>5. /\ (p + q) * y = p * y + q * y /\ (x - y) * q = x * q - q * y
        /\ ((m + 2) * q) * y = (m * y) * q + 2 * (q * y)
    BY <1>2
  <2> QED
    BY <1>1, <1>2, <2>2, <2>3, <2>4, <2>5
<1> QED
  BY <1>1, <1>2, <1>3 DEF n, m

\* What Fit makes of a rung r and a source of w x h: it scales by the smaller of the
\* two ratios, and not at all when the source is within the rung.
Unscaled(r, w, h, a, b) ==
    w <= r.w /\ h <= r.h /\ a = Even(w, 1) /\ b = Even(h, 1)

ByWidth(r, w, h, a, b) ==
    r.w <= w /\ r.w * h <= r.h * w /\ a = Even(r.w, 1) /\ b = Even(h * r.w, w)

ByHeight(r, w, h, a, b) ==
    r.h <= h /\ r.h * w < r.w * h /\ a = Even(w * r.h, h) /\ b = Even(r.h, 1)

LEMMA FitScales ==
    ASSUME NEW r, NEW w \in Nat, NEW h \in Nat, w > 0, h > 0, r.w \in Nat, r.h \in Nat,
           NEW a, a = Fit(r, w, h)[1], NEW b, b = Fit(r, w, h)[2]
    PROVE  Unscaled(r, w, h, a, b) \/ ByWidth(r, w, h, a, b) \/ ByHeight(r, w, h, a, b)
<1>1. ~(w <= 0 \/ h <= 0)
  OBVIOUS
<1>2. CASE w <= r.w /\ h <= r.h
  BY <1>1, <1>2 DEF Fit, Unscaled
<1>3. CASE ~(w <= r.w /\ h <= r.h) /\ r.w * h <= r.h * w
  <2>1. Fit(r, w, h) = <<Even(r.w, 1), Even(h * r.w, w)>>
    BY <1>1, <1>3 DEF Fit
  <2>2. r.w <= w
    <3>1. ASSUME r.w > w PROVE FALSE
      <4>1. h > r.h
        BY <1>3, <3>1
      <4>2. r.w * h > w * h /\ w * h >= w * r.h /\ w * r.h = r.h * w
        BY <3>1, <4>1
      <4>3. r.w * h \in Nat /\ w * h \in Nat /\ r.h * w \in Nat
        OBVIOUS
      <4> QED
        BY <1>3, <4>2, <4>3
    <3> QED
      BY <3>1
  <2> QED
    BY <1>3, <2>1, <2>2 DEF ByWidth
<1>4. CASE ~(w <= r.w /\ h <= r.h) /\ ~(r.w * h <= r.h * w)
  <2>1. Fit(r, w, h) = <<Even(w * r.h, h), Even(r.h, 1)>>
    BY <1>1, <1>4 DEF Fit
  <2>2. r.h * w < r.w * h
    <3>1. r.w * h \in Nat /\ r.h * w \in Nat
      OBVIOUS
    <3> QED
      BY <1>4, <3>1
  <2>3. r.h <= h
    <3>1. ASSUME r.h > h PROVE FALSE
      <4>1. w > r.w
        BY <1>4, <3>1
      <4>2. r.h * w >= h * w /\ h * w >= h * r.w /\ h * r.w = r.w * h
        BY <3>1, <4>1
      <4>3. r.h * w \in Nat /\ h * w \in Nat /\ r.w * h \in Nat
        OBVIOUS
      <4> QED
        BY <2>2, <4>2, <4>3
    <3> QED
      BY <3>1
  <2> QED
    BY <2>1, <2>2, <2>3 DEF ByHeight
<1> QED
  BY <1>2, <1>3, <1>4

\* plan.go's fit, for every rung and every source of at least 2 x 2: a rendition is
\* no larger than the source or the rung in either dimension, has even sizes, and
\* has the shape of the source up to the rounding of its sizes.
THEOREM RenditionsFitTheSource ==
    ASSUME NEW r, NEW w \in Nat, NEW h \in Nat, w >= 2, h >= 2,
           r.w \in Nat, r.h \in Nat, r.w >= 2, r.h >= 2
    PROVE  LET size == Fit(r, w, h)
               skew == size[1] * h - size[2] * w
           IN  /\ size[1] <= w /\ size[2] <= h /\ size[1] <= r.w /\ size[2] <= r.h
               /\ size[1] % 2 = 0 /\ size[2] % 2 = 0
               /\ skew <= 2 * (w + h) /\ -skew <= 2 * (w + h)
<1>1. w > 0 /\ h > 0 /\ 1 \in Nat \ {0} /\ w \in Nat \ {0} /\ h \in Nat \ {0}
  OBVIOUS
<1>2. ASSUME NEW m \in Nat, m >= 2
      PROVE  Even(m, 1) \in Nat /\ Even(m, 1) % 2 = 0 /\ Even(m, 1) <= m /\ m - 1 <= Even(m, 1)
  <2>1. Even(m, 1) <= m
    BY <1>2, EvenIsBounded
  <2>2. Even(m, 1) \in Nat /\ Even(m, 1) % 2 = 0 /\ m - 1 <= Even(m, 1) * 1
    BY <1>1, EvenIsNear
  <2> QED
    BY <2>1, <2>2
<1>3. ASSUME NEW p \in Nat, NEW q \in Nat \ {0}
      PROVE  /\ Even(p, q) \in Nat /\ Even(p, q) % 2 = 0
             /\ p - q <= Even(p, q) * q /\ Even(p, q) * q <= p + 2 * q
  <2> DEFINE n == Even(p, q)
  <2>1. n \in Nat /\ n % 2 = 0 /\ p - q <= n * q /\ (n * q < p + q \/ n = 2)
    BY EvenIsNear
  <2> HIDE DEF n
  <2> QED
    BY <2>1 DEF n
<1> DEFINE a == Fit(r, w, h)[1]
           b == Fit(r, w, h)[2]
<1>4. CASE w <= r.w /\ h <= r.h /\ a = Even(w, 1) /\ b = Even(h, 1)
  <2>1. /\ a \in Nat /\ a % 2 = 0 /\ a <= w /\ w - 1 <= a
        /\ b \in Nat /\ b % 2 = 0 /\ b <= h /\ h - 1 <= b
    BY <1>2, <1>4
  <2> HIDE DEF a, b
  <2>2. /\ (w - 1) * h <= a * h /\ a * h <= w * h /\ (h - 1) * w <= b * w /\ b * w <= h * w
        /\ (w - 1) * h = w * h - h /\ (h - 1) * w = w * h - w /\ h * w = w * h
    BY <2>1
  <2>3. a * h \in Nat /\ b * w \in Nat /\ w * h \in Nat
    BY <2>1
  <2> QED
    BY <1>4, <2>1, <2>2, <2>3 DEF a, b
<1>5. CASE r.w <= w /\ r.w * h <= r.h * w /\ a = Even(r.w, 1) /\ b = Even(h * r.w, w)
  <2>1. a \in Nat /\ a % 2 = 0 /\ a <= r.w /\ r.w - 1 <= a
    BY <1>2, <1>5
  <2>2. h * r.w \in Nat /\ h * r.w = r.w * h /\ h * r.w <= h * w
    BY <1>5
  <2>3. b <= h /\ b <= r.h
    BY <1>1, <1>5, <2>2, EvenIsBounded
  <2>4. b \in Nat /\ b % 2 = 0 /\ h * r.w - w <= b * w /\ b * w <= h * r.w + 2 * w
    <3> DEFINE p == h * r.w
    <3>1. p \in Nat /\ b = Even(p, w)
      BY <1>5, <2>2
    <3> HIDE DEF p, b
    <3>2. b \in Nat /\ b % 2 = 0 /\ p - w <= b * w /\ b * w <= p + 2 * w
      BY <1>1, <1>3, <3>1
    <3> QED
      BY <3>2 DEF p
  <2> HIDE DEF a, b
  <2>5. (r.w - 1) * h <= a * h /\ a * h <= r.w * h /\ (r.w - 1) * h = r.w * h - h
    BY <2>1
  <2>6. a * h \in Nat /\ b * w \in Nat
    BY <2>1, <2>4
  <2> QED
    BY <1>5, <2>1, <2>2, <2>3, <2>4, <2>5, <2>6 DEF a, b
<1>6. CASE r.h <= h /\ r.h * w < r.w * h /\ a = Even(w * r.h, h) /\ b = Even(r.h, 1)
  <2>1. b \in Nat /\ b % 2 = 0 /\ b <= r.h /\ r.h - 1 <= b
    BY <1>2, <1>6
  <2>2. w * r.h \in Nat /\ w * r.h = r.h * w /\ w * r.h <= w * h /\ w * r.h <= r.w * h
    BY <1>6
  <2>3. a <= w /\ a <= r.w
    BY <1>1, <2>2, <1>6, EvenIsBounded
  <2>4. a \in Nat /\ a % 2 = 0 /\ w * r.h - h <= a * h /\ a * h <= w * r.h + 2 * h
    <3> DEFINE p == w * r.h
    <3>1. p \in Nat /\ a = Even(p, h)
      BY <1>6, <2>2
    <3> HIDE DEF p, a
    <3>2. a \in Nat /\ a % 2 = 0 /\ p - h <= a * h /\ a * h <= p + 2 * h
      BY <1>1, <1>3, <3>1
    <3> QED
      BY <3>2 DEF p
  <2> HIDE DEF a, b
  <2>5. (r.h - 1) * w <= b * w /\ b * w <= r.h * w /\ (r.h - 1) * w = r.h * w - w
    BY <2>1
  <2>6. a * h \in Nat /\ b * w \in Nat
    BY <2>1, <2>4
  <2> QED
    BY <1>6, <2>1, <2>2, <2>3, <2>4, <2>5, <2>6 DEF a, b
<1>7. Unscaled(r, w, h, a, b) \/ ByWidth(r, w, h, a, b) \/ ByHeight(r, w, h, a, b)
  BY <1>1, FitScales
<1> QED
  BY <1>4, <1>5, <1>6, <1>7 DEF Unscaled, ByWidth, ByHeight

\* An even size keeps its value.
LEMMA EvenIsExact ==
    ASSUME NEW m \in Nat, m >= 2, m % 2 = 0
    PROVE  Even(m, 1) = m
<1> DEFINE n == Even(m, 1)
<1>1. n <= m
  BY EvenIsBounded
<1>2. n \in Nat /\ n % 2 = 0 /\ m - 1 <= n * 1
  BY EvenIsNear
<1> HIDE DEF n
<1>3. n = m
  BY <1>1, <1>2
<1> QED
  BY <1>3 DEF n

\* The rungs of a ladder: even sizes, and each smaller than the one above it.
IsRung(r) ==
    /\ r.w \in Nat /\ r.h \in Nat /\ r.w >= 2 /\ r.h >= 2
    /\ r.w % 2 = 0 /\ r.h % 2 = 0

IsBelow(s, r) == s.w < r.w /\ s.h < r.h

\* plan.go's rungsFor and fit: of two rungs the source can fill, the lower one gives
\* the smaller rendition. It is no larger in either dimension, and never the same.
THEOREM RenditionsAreDistinct ==
    ASSUME NEW r, IsRung(r), NEW s, IsRung(s), IsBelow(s, r),
           NEW w \in Nat, NEW h \in Nat, w >= 2, h >= 2, r.h <= h
    PROVE  LET upper == Fit(r, w, h)
               lower == Fit(s, w, h)
           IN  /\ lower[1] <= upper[1] /\ lower[2] <= upper[2]
               /\ lower[1] # upper[1] \/ lower[2] # upper[2]
<1> DEFINE a == Fit(r, w, h)[1]
           b == Fit(r, w, h)[2]
           c == Fit(s, w, h)[1]
           d == Fit(s, w, h)[2]
<1>1. /\ w > 0 /\ h > 0 /\ 1 \in Nat \ {0} /\ w \in Nat \ {0} /\ h \in Nat \ {0}
      /\ r.w \in Nat /\ r.h \in Nat /\ r.w >= 2 /\ r.h >= 2
      /\ s.w \in Nat /\ s.h \in Nat /\ s.w >= 2 /\ s.h >= 2
  BY DEF IsRung
<1>2. s.w < r.w /\ s.h < r.h
  BY DEF IsBelow
<1>3. Even(r.w, 1) = r.w /\ Even(r.h, 1) = r.h /\ Even(s.w, 1) = s.w /\ Even(s.h, 1) = s.h
  BY <1>1, EvenIsExact DEF IsRung
<1>4. Unscaled(r, w, h, a, b) \/ ByWidth(r, w, h, a, b) \/ ByHeight(r, w, h, a, b)
  BY <1>1, FitScales
<1>5. Unscaled(s, w, h, c, d) \/ ByWidth(s, w, h, c, d) \/ ByHeight(s, w, h, c, d)
  BY <1>1, FitScales
<1>6. c <= s.w /\ d <= s.h
  BY <1>1, RenditionsFitTheSource
<1> HIDE DEF a, b, c, d
<1>7. c \in Int /\ d \in Int /\ c <= s.w /\ d <= s.h
  <2>1. c \in Nat /\ d \in Nat
    <3>1. h * s.w \in Nat /\ w * s.h \in Nat
      BY <1>1
    <3>2. \A p \in Nat, q \in Nat \ {0} : Even(p, q) \in Nat
      BY EvenIsNear
    <3>3. /\ Even(w, 1) \in Nat /\ Even(h, 1) \in Nat /\ Even(s.w, 1) \in Nat /\ Even(s.h, 1) \in Nat
          /\ Even(h * s.w, w) \in Nat /\ Even(w * s.h, h) \in Nat
      BY <1>1, <3>1, <3>2
    <3> QED
      BY <1>5, <3>3 DEF Unscaled, ByWidth, ByHeight
  <2> QED
    BY <1>6, <2>1
<1>8. \/ s.w <= w /\ s.w * h <= s.h * w /\ c = s.w /\ d = Even(h * s.w, w)
      \/ s.h <= h /\ s.h * w < s.w * h /\ c = Even(w * s.h, h) /\ d = s.h
  BY <1>1, <1>3, <1>5, <1>2 DEF Unscaled, ByWidth, ByHeight
<1>9. CASE w <= r.w /\ h <= r.h /\ a = Even(w, 1) /\ b = Even(h, 1)
  <2>1. b = r.h
    BY <1>1, <1>3, <1>9
  <2>2. c <= a
    <3>1. CASE s.w <= w /\ c = s.w
      BY <1>1, <1>3, <1>9, <3>1, EvenIsMonotone
    <3>2. CASE s.h * w < s.w * h /\ c = Even(w * s.h, h)
      <4>1. w * s.h \in Nat /\ (w * s.h) * 1 <= w * h
        BY <1>1, <1>9, <1>2
      <4> QED
        BY <1>1, <1>9, <3>2, <4>1, EvenIsMonotone
    <3> QED
      BY <1>8, <3>1, <3>2
  <2> QED
    BY <1>1, <1>7, <1>2, <2>1, <2>2 DEF a, b, c, d
<1>10. CASE r.w <= w /\ r.w * h <= r.h * w /\ a = Even(r.w, 1) /\ b = Even(h * r.w, w)
  <2>1. a = r.w
    BY <1>3, <1>10
  <2>2. d <= b
    <3>1. h * r.w \in Nat /\ h * s.w \in Nat /\ (h * s.w) * w <= (h * r.w) * w
      BY <1>1, <1>2
    <3>2. CASE d = Even(h * s.w, w)
      BY <1>1, <1>10, <3>1, <3>2, EvenIsMonotone
    <3>3. CASE s.h * w < s.w * h /\ d = s.h
      <4>1. s.w * h <= h * r.w /\ s.h * w \in Nat /\ s.w * h \in Nat
        BY <1>1, <1>2
      <4>2. s.h * w <= (h * r.w) * 1
        BY <3>1, <3>3, <4>1
      <4> QED
        BY <1>1, <1>3, <1>10, <3>1, <3>3, <4>2, EvenIsMonotone
    <3> QED
      BY <1>8, <3>2, <3>3
  <2> QED
    BY <1>1, <1>7, <1>2, <2>1, <2>2 DEF a, b, c, d
<1>11. CASE r.h <= h /\ r.h * w < r.w * h /\ a = Even(w * r.h, h) /\ b = Even(r.h, 1)
  <2>1. b = r.h
    BY <1>3, <1>11
  <2>2. c <= a
    <3>1. w * r.h \in Nat /\ w * s.h \in Nat /\ (w * s.h) * h <= (w * r.h) * h
      BY <1>1, <1>2
    <3>2. CASE c = Even(w * s.h, h)
      BY <1>1, <1>11, <3>1, <3>2, EvenIsMonotone
    <3>3. CASE s.w * h <= s.h * w /\ c = s.w
      <4>1. s.h * w <= w * r.h /\ s.w * h \in Nat /\ s.h * w \in Nat
        BY <1>1, <1>2
      <4>2. s.w * h <= (w * r.h) * 1
        BY <3>1, <3>3, <4>1
      <4> QED
        BY <1>1, <1>3, <1>11, <3>1, <3>3, <4>2, EvenIsMonotone
    <3> QED
      BY <1>8, <3>2, <3>3
  <2> QED
    BY <1>1, <1>7, <1>2, <2>1, <2>2 DEF a, b, c, d
<1> QED
  BY <1>4, <1>9, <1>10, <1>11 DEF a, b, c, d, Unscaled, ByWidth, ByHeight

----------------------------------------------------------------------------
(* Tracks *)

\* A set of numbers has a least one: what stands for induction over data.
LEMMA LeastNumber ==
    ASSUME NEW S \in SUBSET Nat, S # {}
    PROVE  \E x \in S : \A y \in S : x <= y
<1> DEFINE R == {pair \in Nat \X Nat : pair[1] < pair[2]}
<1>1. R = OpToRel(<, Nat)
  BY DEF OpToRel
<1>2. IsWellFoundedOn(R, Nat)
  BY <1>1, NatLessThanWellFounded
<1>3. PICK x \in S : \A y \in S : <<y, x>> \notin R
  <2> HIDE DEF R
  <2> QED
    BY <1>2, WFMin
<1>4. \A y \in S : ~(y < x)
  BY <1>3
<1> QED
  BY <1>3, <1>4

\* trackOf returns the first track of the kind, and nothing only when there is none.
LEMMA FirstTrack ==
    ASSUME NEW media, NEW kind, NEW n \in Nat, DOMAIN media.tracks = 1 .. n
    PROVE  \/ /\ TrackOf(media, kind) = <<>>
              /\ \A i \in 1 .. n : media.tracks[i].kind # kind
           \/ \E i \in 1 .. n :
                /\ TrackOf(media, kind) = <<media.tracks[i]>> /\ media.tracks[i].kind = kind
                /\ \A k \in 1 .. i - 1 : media.tracks[k].kind # kind
<1> DEFINE found == {i \in DOMAIN media.tracks : media.tracks[i].kind = kind}
<1>1. CASE found = {}
  BY <1>1 DEF TrackOf
<1>2. CASE found # {}
  <2>1. \E x \in found : \A y \in found : x <= y
    <3>1. found \in SUBSET Nat
      OBVIOUS
    <3> HIDE DEF found
    <3> QED
      BY <1>2, <3>1, LeastNumber
  <2>2. Min(found) \in found /\ \A y \in found : Min(found) <= y
    BY <2>1 DEF Min
  <2>3. TrackOf(media, kind) = <<media.tracks[Min(found)]>>
    BY <1>2 DEF TrackOf
  <2> DEFINE m == Min(found)
  <2>4. m \in 1 .. n /\ media.tracks[m].kind = kind
    BY <2>2
  <2>5. \A k \in 1 .. m - 1 : media.tracks[k].kind # kind
    <3> SUFFICES ASSUME NEW k \in 1 .. m - 1, media.tracks[k].kind = kind PROVE FALSE
      OBVIOUS
    <3>1. k \in found
      BY <2>4
    <3>2. m <= k
      BY <2>2, <3>1
    <3> HIDE DEF m
    <3> QED
      BY <2>4, <3>2
  <2> QED
    BY <2>3, <2>4, <2>5
<1> QED
  BY <1>1, <1>2

\* What Parse makes of a file's streams.
LEMMA ParsedTracks ==
    ASSUME NEW file, NEW n \in Nat, Len(file.streams) = n
    PROVE  /\ Parse(file).ms = file.ms /\ DOMAIN Parse(file).tracks = 1 .. n
           /\ \A i \in 1 .. n : Parse(file).tracks[i] = ParseStream(file.streams[i])
BY DEF Parse

\* A stream without side data has the format of its transfer characteristics.
LEMMA PlainFormat ==
    ASSUME NEW s, s.side = <<>>
    PROVE  DetectHDR(s) = TransferFormat(s.transfer)
<1> DEFINE b == TransferFormat(s.transfer)
           Iter(g) == [t \in SUBSET {} |->
                         IF t = {} THEN b
                         ELSE WithSideData(g[t \ {Max(t)}], s.side[Max(t)])]
           h == CHOOSE g : g = Iter(g)
<1>1. DOMAIN s.side = {}
  OBVIOUS
<1>2. DetectHDR(s) = h[{}]
  BY <1>1 DEF DetectHDR, FoldLeft, MapThenFoldSet
<1>3. [t \in SUBSET {} |-> b] = Iter([t \in SUBSET {} |-> b])
  OBVIOUS
<1>4. h = Iter(h)
  <2> HIDE DEF Iter
  <2> QED
    BY <1>3
<1> QED
  BY <1>2, <1>4

----------------------------------------------------------------------------
(* The ladder *)

Rungs == [label : {"1080p", "720p", "480p", "360p"}, w : Nat, h : Nat, crf : Nat,
          maxrate : Nat]

\* A ladder descends: every rung can be encoded and is below those before it, under
\* another label.
IsLadder(ladder) ==
    /\ ladder \in Seq(Rungs)
    /\ \A i \in 1 .. Len(ladder) : IsRung(ladder[i])
    /\ \A i, k \in 1 .. Len(ladder) :
         i < k => IsBelow(ladder[k], ladder[i]) /\ ladder[k].label # ladder[i].label

\* The ladders of the presets do.
LEMMA LaddersDescend ==
    ASSUME NEW p \in DOMAIN Presets
    PROVE  IsLadder(Presets[p].ladder) /\ Presets[p].package \in BOOLEAN
<1>1. p \in {"probe", "transcode", "ladder", "stream"}
  BY SMT DEF Presets
<1>2. IsLadder(<<>>)
  BY DEF IsLadder
<1> DEFINE one == <<Rung("720p", 1280, 720, 23, 4000000)>>
<1>3. IsLadder(one)
  BY SMT DEF IsLadder, IsRung, IsBelow, Rung, Rungs
<1>4. IsLadder(Ladder)
  <2>1. /\ Len(Ladder) = 4
        /\ Ladder[1] = Rung("1080p", 1920, 1080, 22, 8000000)
        /\ Ladder[2] = Rung("720p", 1280, 720, 23, 4000000)
        /\ Ladder[3] = Rung("480p", 854, 480, 24, 1800000)
        /\ Ladder[4] = Rung("360p", 640, 360, 25, 900000)
    BY SMT DEF Ladder
  <2>2. \A i \in 1 .. 4 : Ladder[i] \in Rungs /\ IsRung(Ladder[i])
    BY <2>1, SMT DEF Rung, Rungs, IsRung
  <2>3. Ladder \in Seq(Rungs)
    BY SMT DEF Ladder, Rung, Rungs
  <2>4. \A i, k \in 1 .. 4 :
           i < k => IsBelow(Ladder[k], Ladder[i]) /\ Ladder[k].label # Ladder[i].label
    BY <2>1, SMT DEF Rung, IsBelow
  <2> QED
    BY <2>1, <2>2, <2>3, <2>4 DEF IsLadder
<1>5. /\ Presets["probe"].ladder = <<>> /\ Presets["transcode"].ladder = one
      /\ Presets["ladder"].ladder = Ladder /\ Presets["stream"].ladder = Ladder
  BY SMT DEF Presets
<1>6. /\ Presets["probe"].package = FALSE /\ Presets["transcode"].package = FALSE
      /\ Presets["ladder"].package = FALSE /\ Presets["stream"].package = TRUE
  BY SMT DEF Presets
<1> HIDE DEF one
<1> QED
  BY <1>1, <1>2, <1>3, <1>4, <1>5, <1>6

\* The loop of rungsFor, for the functions that may stand for it.
Fills(ladder, h, f) ==
    [i \in 0 .. Len(ladder) |->
       IF i = 0 THEN <<>>
       ELSE IF h > 0 /\ ladder[i].h > h THEN f[i - 1]
       ELSE Append(f[i - 1], ladder[i])]

\* There is one, on ladders of any length.
LEMMA FilledIsLoop ==
    ASSUME NEW ladder, IsLadder(ladder), NEW h \in Nat
    PROVE  Filled(ladder, h) = Fills(ladder, h, Filled(ladder, h))
<1> DEFINE n == Len(ladder)
<1>1. n \in Nat /\ \A i \in 1 .. n : ladder[i] \in Rungs
  BY DEF IsLadder
<1> DEFINE Fun == [0 .. n -> Seq(Rungs)]
           UpTo(m) == \E f \in Fun : \A k \in 0 .. m : f[k] = Fills(ladder, h, f)[k]
           Bad == {m \in 0 .. n : ~UpTo(m)}
<1> HIDE DEF n
<1>2. UpTo(0)
  <2> DEFINE f == [k \in 0 .. n |-> <<>>]
  <2>1. f \in Fun
    OBVIOUS
  <2>2. 0 \in 0 .. n
    BY <1>1
  <2>3. \A k \in 0 .. 0 : f[k] = Fills(ladder, h, f)[k]
    BY <1>1, <2>2 DEF Fills, n
  <2> HIDE DEF f
  <2> QED
    BY <2>1, <2>3
<1>3. ASSUME NEW m \in 0 .. n, m + 1 \in 0 .. n, UpTo(m) PROVE UpTo(m + 1)
  <2>1. PICK f \in Fun : \A k \in 0 .. m : f[k] = Fills(ladder, h, f)[k]
    BY <1>3
  <2> DEFINE v == IF h > 0 /\ ladder[m + 1].h > h THEN f[m] ELSE Append(f[m], ladder[m + 1])
             g == [f EXCEPT ![m + 1] = v]
  <2>2. v \in Seq(Rungs)
    <3>1. f[m] \in Seq(Rungs) /\ ladder[m + 1] \in Rungs
      BY <1>1, <1>3
    <3> QED
      BY <3>1
  <2> HIDE DEF v
  <2>3. g \in Fun /\ g[m + 1] = v /\ \A k \in 0 .. m : g[k] = f[k]
    BY <1>1, <1>3, <2>2
  <2> HIDE DEF g
  <2>4. g[m + 1] = Fills(ladder, h, g)[m + 1]
    <3>1. m + 1 # 0 /\ (m + 1) - 1 = m /\ g[m] = f[m]
      BY <1>1, <2>3
    <3> QED
      BY <1>3, <2>3, <3>1 DEF Fills, v, n
  <2>5. ASSUME NEW k \in 0 .. m PROVE g[k] = Fills(ladder, h, g)[k]
    <3>1. /\ g[k] = f[k] /\ f[k] = Fills(ladder, h, f)[k]
      BY <2>1, <2>3
    <3>0. k \in 0 .. n
      BY <1>1
    <3>2. CASE k = 0
      BY <3>0, <3>1, <3>2 DEF Fills, n
    <3>3. CASE k # 0
      <4>1. k - 1 \in 0 .. m /\ g[k - 1] = f[k - 1]
        BY <3>3, <2>3
      <4> QED
        BY <3>0, <3>1, <3>3, <4>1 DEF Fills, n
    <3> QED
      BY <3>2, <3>3
  <2>6. \A k \in 0 .. m + 1 : k \in 0 .. m \/ k = m + 1
    OBVIOUS
  <2> QED
    BY <2>3, <2>4, <2>5, <2>6
<1>4. UpTo(n)
  <2> SUFFICES ASSUME ~UpTo(n) PROVE FALSE
    OBVIOUS
  <2>0. Bad \in SUBSET Nat /\ Bad # {}
    <3>1. n \in 0 .. n
      BY <1>1
    <3> HIDE DEF UpTo
    <3> QED
      BY <3>1
  <2>1. PICK m \in Bad : \A y \in Bad : m <= y
    <3> HIDE DEF Bad
    <3> QED
      BY <2>0, LeastNumber
  <2> HIDE DEF UpTo
  <2>2. m # 0 /\ m \in 0 .. n /\ ~UpTo(m)
    BY <1>2
  <2>3. m - 1 \in 0 .. n /\ m - 1 \notin Bad
    BY <2>1, <2>2, <1>1
  <2> QED
    BY <2>2, <2>3, <1>3
<1>5. PICK f \in Fun : \A k \in 0 .. n : f[k] = Fills(ladder, h, f)[k]
  BY <1>4
<1>6. f = Fills(ladder, h, f)
  BY <1>5 DEF Fills, n
<1> DEFINE g == CHOOSE g : g = Fills(ladder, h, g)
<1>7. Filled(ladder, h) = g
  BY DEF Filled, Fills
<1>8. g = Fills(ladder, h, g)
  BY <1>6
<1> QED
  BY <1>7, <1>8

\* rungsFor keeps rungs of the ladder that the source can fill, in their order.
Kept(ladder, h, s, i) ==
    /\ s \in Seq(Rungs)
    /\ \A k \in 1 .. Len(s) :
         \E m \in 1 .. i : s[k] = ladder[m] /\ (h > 0 => ladder[m].h <= h)
    /\ \A j, k \in 1 .. Len(s) : j < k => IsBelow(s[k], s[j]) /\ s[k].label # s[j].label

LEMMA FilledIsKept ==
    ASSUME NEW ladder, IsLadder(ladder), NEW h \in Nat
    PROVE  Kept(ladder, h, Filled(ladder, h)[Len(ladder)], Len(ladder))
<1> DEFINE n == Len(ladder)
           F == Filled(ladder, h)
           Bad == {m \in 0 .. n : ~Kept(ladder, h, F[m], m)}
<1>1. n \in Nat /\ \A i \in 1 .. n : ladder[i] \in Rungs
  BY DEF IsLadder
<1>2. /\ F[0] = <<>>
      /\ \A i \in 1 .. n : F[i] = IF h > 0 /\ ladder[i].h > h THEN F[i - 1]
                                  ELSE Append(F[i - 1], ladder[i])
  <2>1. F = Fills(ladder, h, F)
    BY FilledIsLoop
  <2> HIDE DEF F
  <2>2. 0 \in 0 .. n /\ \A i \in 1 .. n : i \in 0 .. n /\ i # 0
    BY <1>1
  <2> QED
    BY <2>1, <2>2 DEF Fills
<1> HIDE DEF F, n
<1>3. Kept(ladder, h, F[0], 0)
  BY <1>2 DEF Kept
<1>4. ASSUME NEW m \in 1 .. n, Kept(ladder, h, F[m - 1], m - 1)
      PROVE  Kept(ladder, h, F[m], m)
  <2> DEFINE s == F[m - 1]
             r == ladder[m]
  <2>1. /\ s \in Seq(Rungs) /\ r \in Rungs
        /\ \A k \in 1 .. Len(s) :
             \E i \in 1 .. m - 1 : s[k] = ladder[i] /\ (h > 0 => ladder[i].h <= h)
        /\ \A j, k \in 1 .. Len(s) : j < k => IsBelow(s[k], s[j]) /\ s[k].label # s[j].label
    BY <1>1, <1>4 DEF Kept
  <2>2. \A i \in 1 .. m - 1 : i \in 1 .. m /\ i \in 1 .. n
    BY <1>1
  <2>3. CASE h > 0 /\ r.h > h
    <3>1. F[m] = s
      BY <1>2, <2>3
    <3> HIDE DEF s
    <3> QED
      BY <2>1, <2>2, <3>1 DEF Kept
  <2>4. CASE ~(h > 0 /\ r.h > h)
    <3> DEFINE t == Append(s, r)
    <3>1. F[m] = t
      BY <1>2, <2>4
    <3> HIDE DEF s
    <3>2. /\ t \in Seq(Rungs) /\ Len(t) = Len(s) + 1 /\ Len(s) \in Nat
          /\ t[Len(s) + 1] = r /\ \A k \in 1 .. Len(s) : t[k] = s[k]
      BY <2>1
    <3> HIDE DEF t
    <3>3. \A k \in 1 .. Len(t) : k \in 1 .. Len(s) \/ k = Len(s) + 1
      BY <3>2
    <3>4. h > 0 => r.h <= h
      <4>1. r.h \in Nat
        BY <2>1 DEF Rungs
      <4> QED
        BY <2>4, <4>1
    <3>5. ASSUME NEW k \in 1 .. Len(t)
          PROVE  \E i \in 1 .. m : t[k] = ladder[i] /\ (h > 0 => ladder[i].h <= h)
      <4>1. CASE k \in 1 .. Len(s)
        BY <2>1, <2>2, <3>2, <4>1
      <4>2. CASE k = Len(s) + 1
        <5>1. m \in 1 .. m
          OBVIOUS
        <5> QED
          BY <3>2, <3>4, <4>2, <5>1
      <4> QED
        BY <3>3, <4>1, <4>2
    <3>6. ASSUME NEW j \in 1 .. Len(t), NEW k \in 1 .. Len(t), j < k
          PROVE  IsBelow(t[k], t[j]) /\ t[k].label # t[j].label
      <4>1. j \in 1 .. Len(s)
        BY <3>2, <3>6
      <4>2. CASE k \in 1 .. Len(s)
        BY <2>1, <3>2, <3>6, <4>1, <4>2
      <4>3. CASE k = Len(s) + 1
        <5>1. PICK i \in 1 .. m - 1 : s[j] = ladder[i]
          BY <2>1, <4>1
        <5>2. i \in 1 .. n /\ m \in 1 .. n /\ i < m
          BY <1>1
        <5>3. IsBelow(r, ladder[i]) /\ r.label # ladder[i].label
          BY <5>2 DEF IsLadder, n
        <5> QED
          BY <3>2, <4>1, <4>3, <5>1, <5>3
      <4> QED
        BY <3>3, <4>2, <4>3
    <3> QED
      BY <3>1, <3>2, <3>5, <3>6 DEF Kept
  <2> QED
    BY <2>3, <2>4
<1>5. Bad = {}
  <2> SUFFICES ASSUME Bad # {} PROVE FALSE
    OBVIOUS
  <2>0. Bad \in SUBSET Nat
    BY <1>1
  <2>1. PICK m \in Bad : \A y \in Bad : m <= y
    <3> HIDE DEF Bad
    <3> QED
      BY <2>0, LeastNumber
  <2>2. m \in 0 .. n /\ ~Kept(ladder, h, F[m], m)
    OBVIOUS
  <2>3. m # 0
    BY <1>3, <2>2
  <2>4. m \in 1 .. n /\ m - 1 \in 0 .. n /\ m - 1 \notin Bad
    BY <2>1, <2>2, <2>3, <1>1
  <2> QED
    BY <2>2, <2>4, <1>4
<1>6. n \in 0 .. n /\ n \notin Bad
  BY <1>1, <1>5
<1> QED
  BY <1>6 DEF n, F

\* What rungsFor chooses: at least one rung, under labels of their own. For a source
\* of some size every one can be encoded, and each is below the one before it, which
\* the source can fill.
LEMMA RungsAreChosen ==
    ASSUME NEW ladder, IsLadder(ladder), ladder # <<>>, NEW v, v.w \in Nat, v.h \in Nat,
           NEW rungs, rungs = RungsFor(ladder, v)
    PROVE  /\ Len(rungs) \in Nat \ {0} /\ DOMAIN rungs = 1 .. Len(rungs)
           /\ \A i, k \in 1 .. Len(rungs) : rungs[i].label = rungs[k].label => i = k
           /\ (v.w >= 2 /\ v.h >= 2) =>
                /\ \A i \in 1 .. Len(rungs) : /\ rungs[i].w \in Nat /\ rungs[i].h \in Nat
                                              /\ rungs[i].w >= 2 /\ rungs[i].h >= 2
                /\ \A i \in 2 .. Len(rungs) :
                     /\ IsRung(rungs[i]) /\ IsRung(rungs[i - 1])
                     /\ IsBelow(rungs[i], rungs[i - 1]) /\ rungs[i - 1].h <= v.h
<1> DEFINE filled == Filled(ladder, v.h)[Len(ladder)]
<1>1. Kept(ladder, v.h, filled, Len(ladder))
  BY FilledIsKept
<1> HIDE DEF filled
<1>2. CASE filled # <<>>
  <2>1. rungs = filled
    BY <1>2 DEF RungsFor, filled
  <2>2. /\ rungs \in Seq(Rungs)
        /\ \A k \in 1 .. Len(rungs) :
             \E m \in 1 .. Len(ladder) :
                rungs[k] = ladder[m] /\ (v.h > 0 => ladder[m].h <= v.h)
        /\ \A j, k \in 1 .. Len(rungs) :
             j < k => IsBelow(rungs[k], rungs[j]) /\ rungs[k].label # rungs[j].label
    BY <1>1, <2>1 DEF Kept
  <2>3. Len(rungs) \in Nat \ {0} /\ DOMAIN rungs = 1 .. Len(rungs)
    BY <1>2, <2>1, <2>2
  <2>4. \A i, k \in 1 .. Len(rungs) : i = k \/ i < k \/ k < i
    BY <2>3
  <2>5. \A i, k \in 1 .. Len(rungs) : rungs[i].label = rungs[k].label => i = k
    BY <2>2, <2>4
  <2>6. \A i \in 1 .. Len(rungs) : IsRung(rungs[i]) /\ (v.h > 0 => rungs[i].h <= v.h)
    BY <2>2 DEF IsLadder
  <2>7. \A i \in 2 .. Len(rungs) : i \in 1 .. Len(rungs) /\ i - 1 \in 1 .. Len(rungs) /\ i - 1 < i
    BY <2>3
  <2>8. v.h >= 2 => v.h > 0
    OBVIOUS
  <2>9. \A i \in 2 .. Len(rungs) : IsBelow(rungs[i], rungs[i - 1])
    BY <2>2, <2>7
  <2>10. \A i \in 1 .. Len(rungs) : /\ rungs[i].w \in Nat /\ rungs[i].h \in Nat
                                    /\ rungs[i].w >= 2 /\ rungs[i].h >= 2
    BY <2>6 DEF IsRung
  <2> QED
    BY <2>3, <2>5, <2>6, <2>7, <2>8, <2>9, <2>10
<1>3. CASE filled = <<>>
  <2> DEFINE r == [Last(ladder) EXCEPT !.w = v.w, !.h = v.h]
  <2>1. rungs = <<r>>
    BY <1>3 DEF RungsFor, filled
  <2>2. Last(ladder) \in Rungs
    <3>1. ladder \in Seq(Rungs) /\ Len(ladder) \in 1 .. Len(ladder)
      BY DEF IsLadder
    <3> QED
      BY <3>1 DEF Last
  <2>3. r.w = v.w /\ r.h = v.h
    BY <2>2 DEF Rungs
  <2> HIDE DEF r
  <2>4. Len(rungs) = 1 /\ DOMAIN rungs = 1 .. 1 /\ rungs[1] = r
    BY <2>1
  <2> QED
    BY <2>3, <2>4
<1> QED
  BY <1>2, <1>3

----------------------------------------------------------------------------
(* The task graph *)

\* What validation and packaging wait for.
EncodeKeys(labels, n) == {<<"encode", labels[i]>> : i \in 1 .. n}

\* The list Plan appends its tasks to.
IsTaskList(tasks, labels, n, package) ==
    /\ \A i \in 1 .. n : tasks[i] = Task(<<"encode", labels[i]>>, {})
    /\ package => /\ DOMAIN tasks = 1 .. n + 3
                  /\ tasks[n + 1] = Task(<<"thumbnails">>, {})
                  /\ tasks[n + 2] = Task(<<"validate">>, EncodeKeys(labels, n))
                  /\ tasks[n + 3] = Task(<<"package">>,
                                         EncodeKeys(labels, n) \cup {<<"validate">>})
    /\ ~package => /\ DOMAIN tasks = 1 .. n + 1
                   /\ tasks[n + 1] = Task(<<"validate">>, EncodeKeys(labels, n))

LEMMA TaskList ==
    ASSUME NEW p, Presets[p].package \in BOOLEAN, NEW n \in Nat, NEW labels,
           Len(labels) = n
    PROVE  IsTaskList(PlanTasks(p, labels), labels, n, Presets[p].package)
<1> DEFINE tasks == PlanTasks(p, labels)
           keys == EncodeKeys(labels, n)
<1> DEFINE encodes == [i \in 1 .. Len(labels) |-> Task(<<"encode", labels[i]>>, {})]
           ks == {encodes[i].key : i \in DOMAIN encodes}
           T == [key : {<<"encode", labels[i]>> : i \in 1 .. n}
                         \cup {<<"thumbnails">>, <<"validate">>, <<"package">>},
                 deps : {{}, keys, keys \cup {<<"validate">>}}]
           th == Task(<<"thumbnails">>, {})
           va == Task(<<"validate">>, keys)
           pa == Task(<<"package">>, keys \cup {<<"validate">>})
<1>1. ks = keys
  <2>1. DOMAIN encodes = 1 .. n /\ \A i \in 1 .. n : encodes[i].key = <<"encode", labels[i]>>
    BY DEF Task
  <2> HIDE DEF encodes
  <2> QED
    BY <2>1 DEF EncodeKeys, keys
<1> HIDE DEF tasks, keys
<1>2. encodes \in Seq(T) /\ Len(encodes) = n
  <2>1. \A i \in 1 .. n : Task(<<"encode", labels[i]>>, {}) \in T
    BY DEF Task
  <2> HIDE DEF T
  <2> QED
    BY <2>1
<1>3. \A i \in 1 .. n : encodes[i] = Task(<<"encode", labels[i]>>, {})
  OBVIOUS
<1>4. th \in T /\ va \in T /\ pa \in T
  BY DEF Task
<1>5. CASE Presets[p].package
  <2>1. tasks = encodes \o <<th>> \o <<va>> \o <<pa>>
    BY <1>1, <1>5 DEF PlanTasks, tasks
  <2> DEFINE a == encodes \o <<th>>
             b == a \o <<va>>
             c == b \o <<pa>>
  <2> HIDE DEF encodes, th, va, pa, T
  <2>2. /\ a \in Seq(T) /\ Len(a) = n + 1 /\ a[n + 1] = th
        /\ \A i \in 1 .. n : a[i] = encodes[i]
    BY <1>2, <1>4
  <2> HIDE DEF a
  <2>3. /\ b \in Seq(T) /\ Len(b) = n + 2 /\ b[n + 2] = va
        /\ \A i \in 1 .. n + 1 : b[i] = a[i]
    BY <1>4, <2>2
  <2> HIDE DEF b
  <2>4. /\ c \in Seq(T) /\ Len(c) = n + 3 /\ c[n + 3] = pa
        /\ \A i \in 1 .. n + 2 : c[i] = b[i]
    BY <1>4, <2>3
  <2>5. tasks = c
    BY <2>1 DEF a, b
  <2> HIDE DEF c
  <2>6. \A i \in 1 .. n : i \in 1 .. n + 1 /\ i \in 1 .. n + 2
    OBVIOUS
  <2>7. n + 1 \in 1 .. n + 1 /\ n + 1 \in 1 .. n + 2 /\ n + 2 \in 1 .. n + 2
    OBVIOUS
  <2>8. DOMAIN tasks = 1 .. n + 3
    BY <2>4, <2>5
  <2>9. \A i \in 1 .. n : tasks[i] = Task(<<"encode", labels[i]>>, {})
    BY <1>3, <2>2, <2>3, <2>4, <2>5, <2>6
  <2>10. tasks[n + 1] = th /\ tasks[n + 2] = va /\ tasks[n + 3] = pa
    BY <2>2, <2>3, <2>4, <2>5, <2>7
  <2> QED
    BY <1>5, <2>8, <2>9, <2>10 DEF th, va, pa, IsTaskList, tasks, keys
<1>6. CASE ~Presets[p].package
  <2>1. tasks = encodes \o <<>> \o <<va>> \o <<>>
    BY <1>1, <1>6 DEF PlanTasks, tasks
  <2> DEFINE c == encodes \o <<va>>
  <2> HIDE DEF encodes, th, va, pa, T
  <2>2. encodes \o <<>> = encodes
    BY <1>2
  <2>3. /\ c \in Seq(T) /\ Len(c) = n + 1 /\ c[n + 1] = va
        /\ \A i \in 1 .. n : c[i] = encodes[i]
    BY <1>2, <1>4
  <2>4. tasks = c \o <<>>
    BY <2>1, <2>2
  <2> HIDE DEF c
  <2>5. tasks = c
    BY <2>3, <2>4
  <2> QED
    BY <1>3, <1>6, <2>3, <2>5 DEF va, IsTaskList, tasks, keys
<1> QED
  BY <1>5, <1>6

\* What GraphIsSound says of a list of tasks, when there are renditions.
IsGraph(tasks) ==
    /\ \A i, k \in DOMAIN tasks : tasks[i].key = tasks[k].key => i = k
    /\ \A i \in DOMAIN tasks : \A d \in tasks[i].deps : \E k \in 1 .. i - 1 : tasks[k].key = d

IsStaged(tasks, labels, n) ==
    LET Key(i) == tasks[i].key
        Position(k) == CHOOSE i \in DOMAIN tasks : Key(i) = k
        encodes == {i \in DOMAIN tasks : Key(i)[1] = "encode"}
    IN  /\ {Key(i) : i \in encodes} = tasks[Position(<<"validate">>)].deps
        /\ {Key(i)[2] : i \in encodes} = {labels[i] : i \in 1 .. n}
        /\ \A i \in DOMAIN tasks : Key(i) = <<"package">> =>
             <<"validate">> \in tasks[i].deps

\* Over renditions with labels of their own, the tasks Plan lists are such a graph.
LEMMA TasksAreStaged ==
    ASSUME NEW p, Presets[p].package \in BOOLEAN, NEW n \in Nat, NEW labels,
           Len(labels) = n, \A i, k \in 1 .. n : labels[i] = labels[k] => i = k,
           NEW tasks, tasks = PlanTasks(p, labels)
    PROVE  IsGraph(tasks) /\ IsStaged(tasks, labels, n)
<1> DEFINE keys == EncodeKeys(labels, n)
           package == Presets[p].package
           end == IF package THEN n + 3 ELSE n + 1
           at == IF package THEN n + 2 ELSE n + 1
           Key(i) == tasks[i].key
           encodes == {i \in DOMAIN tasks : Key(i)[1] = "encode"}
<1>0. /\ \A i \in 1 .. n : tasks[i] = Task(<<"encode", labels[i]>>, {})
      /\ package => /\ DOMAIN tasks = 1 .. n + 3
                    /\ tasks[n + 1] = Task(<<"thumbnails">>, {})
                    /\ tasks[n + 2] = Task(<<"validate">>, keys)
                    /\ tasks[n + 3] = Task(<<"package">>, keys \cup {<<"validate">>})
      /\ ~package => DOMAIN tasks = 1 .. n + 1 /\ tasks[n + 1] = Task(<<"validate">>, keys)
  <2>1. IsTaskList(tasks, labels, n, package)
    BY TaskList
  <2> HIDE DEF package
  <2> QED
    BY <2>1 DEF IsTaskList
<1>1. DOMAIN tasks = 1 .. end
  BY <1>0
<1> HIDE DEF keys
<1>2. \A i \in 1 .. n : /\ Key(i) = <<"encode", labels[i]>> /\ tasks[i].deps = {}
                        /\ Key(i)[1] = "encode" /\ Key(i)[2] = labels[i]
  <2> SUFFICES ASSUME NEW i \in 1 .. n
               PROVE  /\ Key(i) = <<"encode", labels[i]>> /\ tasks[i].deps = {}
                      /\ Key(i)[1] = "encode" /\ Key(i)[2] = labels[i]
    OBVIOUS
  <2>1. tasks[i] = Task(<<"encode", labels[i]>>, {})
    BY <1>0
  <2>2. tasks[i].key = <<"encode", labels[i]>> /\ tasks[i].deps = {}
    BY <2>1 DEF Task
  <2> QED
    BY <2>2
<1>3. Key(at) = <<"validate">> /\ Key(at)[1] = "validate" /\ tasks[at].deps = keys
  <2>1. tasks[at] = Task(<<"validate">>, keys)
    BY <1>0
  <2> HIDE DEF at
  <2> QED
    BY <2>1 DEF Task
<1>4. package =>
        /\ Key(n + 1) = <<"thumbnails">> /\ Key(n + 1)[1] = "thumbnails" /\ tasks[n + 1].deps = {}
        /\ Key(n + 3) = <<"package">> /\ Key(n + 3)[1] = "package"
        /\ tasks[n + 3].deps = keys \cup {<<"validate">>}
  BY <1>0 DEF Task
<1>5. /\ \A i \in 1 .. end : i \in 1 .. n \/ i = at \/ (package /\ i \in {n + 1, n + 3})
      /\ \A i \in 1 .. n : i \in 1 .. end
      /\ at \in 1 .. end /\ at > n
  <2>1. CASE package
    BY <2>1
  <2>2. CASE ~package
    BY <2>2
  <2> QED
    BY <2>1, <2>2
<1> HIDE DEF end, at
<1>6. \A k \in keys : \E i \in 1 .. n : Key(i) = k
  BY <1>2 DEF keys, EncodeKeys
<1>7. \A i, k \in DOMAIN tasks : Key(i) = Key(k) => i = k
  <2> SUFFICES ASSUME NEW i \in 1 .. end, NEW k \in 1 .. end, Key(i) = Key(k) PROVE i = k
    BY <1>1
  <2>1. CASE i \in 1 .. n /\ k \in 1 .. n
    BY <1>2, <2>1
  <2>2. \A m \in 1 .. end : m \notin 1 .. n => Key(m)[1] # "encode"
    BY <1>3, <1>4, <1>5
  <2>3. CASE ~(i \in 1 .. n /\ k \in 1 .. n)
    <3>1. i \notin 1 .. n /\ k \notin 1 .. n
      BY <1>2, <2>2, <2>3
    <3>2. CASE package
      BY <1>3, <1>4, <1>5, <3>1, <3>2
    <3>3. CASE ~package
      BY <1>5, <3>1, <3>3
    <3> QED
      BY <3>2, <3>3
  <2> QED
    BY <2>1, <2>3
<1>8. \A i \in DOMAIN tasks : \A d \in tasks[i].deps : \E k \in 1 .. i - 1 : Key(k) = d
  <2> SUFFICES ASSUME NEW i \in 1 .. end, NEW d \in tasks[i].deps
               PROVE  \E k \in 1 .. i - 1 : Key(k) = d
    BY <1>1
  <2>1. CASE i > n /\ d \in keys
    <3>1. PICK k \in 1 .. n : Key(k) = d
      BY <1>6, <2>1
    <3>2. k \in 1 .. i - 1
      BY <2>1
    <3> QED
      BY <3>1, <3>2
  <2>2. CASE package /\ i = n + 3 /\ d = <<"validate">>
    <3>1. at \in 1 .. i - 1
      BY <2>2 DEF at
    <3> QED
      BY <1>3, <2>2, <3>1
  <2>3. (i > n /\ d \in keys) \/ (package /\ i = n + 3 /\ d = <<"validate">>)
    <3>1. n + 1 > n /\ n + 3 > n
      OBVIOUS
    <3>2. i \notin 1 .. n
      BY <1>2
    <3>3. CASE i = at
      BY <1>3, <1>5, <3>3
    <3>4. CASE package /\ i = n + 1
      BY <1>4, <3>4
    <3>5. CASE package /\ i = n + 3
      BY <1>4, <3>1, <3>5
    <3> QED
      BY <1>5, <3>2, <3>3, <3>4, <3>5
  <2> QED
    BY <2>1, <2>2, <2>3
<1>9. encodes = 1 .. n
  BY <1>1, <1>2, <1>3, <1>4, <1>5
<1>10. (CHOOSE i \in DOMAIN tasks : Key(i) = <<"validate">>) = at
  <2>1. at \in DOMAIN tasks /\ \A i \in DOMAIN tasks : Key(i) = <<"validate">> => i = at
    BY <1>1, <1>3, <1>5, <1>7
  <2> HIDE DEF Key
  <2>2. Key(at) = <<"validate">>
    BY <1>3 DEF Key
  <2> QED
    BY <2>1, <2>2
<1> HIDE DEF encodes
<1>11. {Key(i) : i \in encodes} = keys
  <2>1. \A i \in 1 .. n : Key(i) = <<"encode", labels[i]>>
    BY <1>2
  <2> HIDE DEF Key
  <2> QED
    BY <2>1, <1>9 DEF keys, EncodeKeys
<1>12. {Key(i)[2] : i \in encodes} = {labels[i] : i \in 1 .. n}
  BY <1>2, <1>9
<1>13. \A i \in DOMAIN tasks : Key(i) = <<"package">> => <<"validate">> \in tasks[i].deps
  <2> SUFFICES ASSUME NEW i \in 1 .. end, Key(i) = <<"package">>
               PROVE  <<"validate">> \in tasks[i].deps
    BY <1>1
  <2>1. i \notin 1 .. n /\ i # at /\ ~(package /\ i = n + 1)
    BY <1>2, <1>3, <1>4
  <2> QED
    BY <1>4, <1>5, <2>1
<1>14. IsGraph(tasks)
  BY <1>7, <1>8 DEF IsGraph
<1>15. IsStaged(tasks, labels, n)
  BY <1>3, <1>10, <1>11, <1>12, <1>13 DEF IsStaged, encodes
<1> QED
  BY <1>14, <1>15

----------------------------------------------------------------------------
(* The pipeline *)

\* Every output that may come of a configuration: as asked for, or damaged. Sound is
\* lost only where there is some.
Outcomes(original, cfg) ==
    Encodings(original, cfg)
      \cup { Damaged(file, d) : file \in Encodings(original, cfg),
                                d \in {e \in Damages : e = "silent" => cfg.channels >= 0} }

\* The verdict of the validate task on a set of files.
Passes(expect, files) ==
    \A i \in DOMAIN files : /\ CheckIntegrity(TRUE, files[i][1].intact) = {}
                            /\ Compare(expect[i], Parse(files[i][1])) = {}

\* What is known of a source under way: the stored probe and the plan are those of
\* the source, an output is an outcome of its configuration, and a verdict is that of
\* the outputs that are still there.
PipelineInvariant ==
    /\ PipelineTypeOK
    /\ probe \in {<<>>, <<Parse(source)>>}
    /\ job = "none" => plan = NoPlan /\ outputs = <<>>
    /\ job # "none" => plan = Plan(job, Parse(source)) /\ plan.error = FALSE
    /\ outputs = [i \in DOMAIN plan.configs |-> outputs[i]]
    /\ \A i \in DOMAIN outputs :
         outputs[i] = <<>> \/ \E file \in Outcomes(source, plan.configs[i]) : outputs[i] = <<file>>
    /\ verdict # "none" =>
         /\ plan.expect # <<>> /\ \A i \in DOMAIN outputs : outputs[i] # <<>>
         /\ verdict = "passed" <=> Passes(plan.expect, outputs)

\* A plan is made, or refused, and expects something of every rendition.
LEMMA PlansAreWhole ==
    ASSUME NEW p, NEW media
    PROVE  /\ Plan(p, media).error \in BOOLEAN
           /\ DOMAIN Plan(p, media).expect = DOMAIN Plan(p, media).configs
<1>1. CASE ~NeedsProbe(p)
  <2>1. Plan(p, media) = [NoPlan EXCEPT !.error = FALSE, !.tasks = <<Task(<<"probe">>, {})>>]
    BY <1>1 DEF Plan
  <2> QED
    BY <2>1 DEF NoPlan
<1>2. CASE NeedsProbe(p)
  BY <1>2 DEF Plan, NoPlan
<1> QED
  BY <1>1, <1>2

\* Nothing is stored or planned at first.
LEMMA PipelineStarts == PipelineInit => PipelineInvariant
<1> SUFFICES ASSUME PipelineInit PROVE PipelineInvariant
  OBVIOUS
<1>1. DOMAIN <<>> = {} /\ NoPlan.configs = <<>> /\ NoPlan.expect = <<>>
  BY DEF NoPlan
<1>2. outputs = [i \in DOMAIN plan.configs |-> outputs[i]]
  BY <1>1 DEF PipelineInit
<1>3. PipelineTypeOK
  <2>1. Len(probe) <= 1 /\ answer \in Answers
    BY DEF PipelineInit, Answers
  <2>2. DOMAIN outputs = DOMAIN plan.configs /\ DOMAIN plan.expect = DOMAIN plan.configs
    BY <1>1 DEF PipelineInit
  <2> QED
    BY <2>1, <2>2 DEF PipelineInit, PipelineTypeOK
<1> QED
  BY <1>1, <1>2, <1>3 DEF PipelineInit, PipelineInvariant

\* The upload and the probe touch nothing that has been planned.
LEMMA RecordProbeKeeps ==
    ASSUME PipelineInvariant, VerifySource \/ RecordProbe PROVE PipelineInvariant'
<1>1. /\ UNCHANGED <<source, job, answer, plan, outputs, verdict>>
      /\ verified' \in BOOLEAN /\ probe' \in {<<>>, <<Parse(source)>>} /\ Len(probe') <= 1
  <2>1. Len(<<>>) <= 1 /\ Len(<<Parse(source)>>) <= 1
    OBVIOUS
  <2> QED
    BY <2>1 DEF VerifySource, RecordProbe, PipelineInvariant, PipelineTypeOK
<1> QED
  BY <1>1 DEF PipelineInvariant, PipelineTypeOK

\* A job is created for the source as it was probed.
LEMMA CreateJobKeeps ==
    ASSUME PipelineInvariant, NEW p \in DOMAIN Presets, CreateJob(p) PROVE PipelineInvariant'
<1>1. /\ job = "none" /\ plan = NoPlan /\ outputs = <<>> /\ verdict = "none"
      /\ UNCHANGED <<source, verified, probe, verdict>>
  <2>1. NoPlan.expect = <<>>
    BY DEF NoPlan
  <2> QED
    BY <2>1 DEF CreateJob, PipelineInvariant, PipelineTypeOK
<1>2. CASE UNCHANGED <<job, plan, outputs>>
  <2>1. answer' \in Answers
    BY DEF CreateJob, Answers, PipelineInvariant, PipelineTypeOK
  <2> QED
    BY <1>1, <1>2, <2>1 DEF PipelineInvariant, PipelineTypeOK
<1>3. CASE ~(UNCHANGED <<job, plan, outputs>>)
  <2> DEFINE media == IF NeedsProbe(p) THEN probe[1] ELSE Parse(source)
             result == Plan(p, media)
  <2>1. /\ NeedsProbe(p) => probe # <<>>
        /\ ~result.error /\ answer' = "created" /\ job' = p /\ plan' = result
        /\ outputs' = [i \in DOMAIN result.configs |-> <<>>]
    BY <1>3 DEF CreateJob
  <2>2. media = Parse(source)
    BY <2>1 DEF PipelineInvariant
  <2>3. /\ result = Plan(p, Parse(source)) /\ result.error \in BOOLEAN
        /\ DOMAIN result.expect = DOMAIN result.configs
    BY <2>2, PlansAreWhole
  <2> HIDE DEF result, media
  <2>4. p # "none"
    BY SMT DEF Presets
  <2>5. answer' \in Answers
    BY <2>1 DEF Answers
  <2> QED
    BY <1>1, <2>1, <2>3, <2>4, <2>5 DEF PipelineInvariant, PipelineTypeOK
<1> QED
  BY <1>2, <1>3

\* What an encode task leaves is an outcome of its configuration.
LEMMA EncodeKeeps ==
    ASSUME PipelineInvariant, NEW i \in DOMAIN outputs, Encode(i) PROVE PipelineInvariant'
<1>1. /\ outputs[i] = <<>> /\ UNCHANGED <<source, verified, probe, job, answer, plan, verdict>>
      /\ verdict = "none"
  BY DEF Encode, PipelineInvariant, PipelineTypeOK
<1>2. PICK file \in Outcomes(source, plan.configs[i]) : outputs' = [outputs EXCEPT ![i] = <<file>>]
  BY DEF Encode, Outcomes
<1>3. DOMAIN outputs' = DOMAIN outputs /\ outputs' = [k \in DOMAIN plan.configs |-> outputs'[k]]
  BY <1>2 DEF PipelineInvariant, PipelineTypeOK
<1>4. job # "none"
  BY DEF PipelineInvariant
<1>5. ASSUME NEW k \in DOMAIN outputs'
      PROVE  \/ outputs'[k] = <<>>
             \/ \E f \in Outcomes(source, plan.configs[k]) : outputs'[k] = <<f>>
  <2>1. CASE k = i
    BY <1>2, <2>1
  <2>2. CASE k # i
    BY <1>2, <1>3, <1>5, <2>2 DEF PipelineInvariant
  <2> QED
    BY <2>1, <2>2
<1> QED
  BY <1>1, <1>3, <1>4, <1>5 DEF PipelineInvariant, PipelineTypeOK

\* The verdict is passed on the outputs once they are all there.
LEMMA ValidateKeeps == ASSUME PipelineInvariant, ValidateOutputs PROVE PipelineInvariant'
<1>1. /\ plan.expect # <<>> /\ \A i \in DOMAIN outputs : outputs[i] # <<>>
      /\ verdict' = IF Passes(plan.expect, outputs) THEN "passed" ELSE "failed"
      /\ UNCHANGED <<source, verified, probe, job, answer, plan, outputs>>
  BY DEF ValidateOutputs, Passes
<1>2. verdict' \in {"passed", "failed"} /\ (verdict' = "passed" <=> Passes(plan.expect, outputs))
  BY <1>1
<1> QED
  BY <1>1, <1>2 DEF PipelineInvariant, PipelineTypeOK

\* The invariant is inductive.
LEMMA PipelineInvariantHolds == PipelineSpec => []PipelineInvariant
<1>1. PipelineInvariant /\ [PipelineNext]_pipelineVars => PipelineInvariant'
  <2> SUFFICES ASSUME PipelineInvariant, [PipelineNext]_pipelineVars PROVE PipelineInvariant'
    OBVIOUS
  <2>1. CASE UNCHANGED pipelineVars
    BY <2>1 DEF pipelineVars, PipelineInvariant, PipelineTypeOK
  <2> QED
    BY <2>1, RecordProbeKeeps, CreateJobKeeps, EncodeKeeps,
       ValidateKeeps DEF PipelineNext
<1> QED
  BY <1>1, PipelineStarts, PTL DEF PipelineSpec

\* The size and the channels of a track are those of its stream.
LEMMA SourceTrack ==
    ASSUME NEW file \in Files, NEW kind, TrackOf(Parse(file), kind) # <<>>,
           NEW t, t = TrackOf(Parse(file), kind)[1]
    PROVE  t.w \in Nat /\ t.h \in Nat /\ t.channels \in Nat
<1> DEFINE n == Len(file.streams)
<1>1. n \in Nat /\ \A i \in 1 .. n : file.streams[i] \in Streams
  BY DEF Files
<1>2. /\ DOMAIN Parse(file).tracks = 1 .. n
      /\ \A i \in 1 .. n : Parse(file).tracks[i] = ParseStream(file.streams[i])
  BY <1>1, ParsedTracks
<1> HIDE DEF n
<1>3. PICK i \in 1 .. n : TrackOf(Parse(file), kind) = <<Parse(file).tracks[i]>>
  BY <1>1, <1>2, FirstTrack
<1>4. t = ParseStream(file.streams[i]) /\ file.streams[i] \in Streams
  BY <1>1, <1>2, <1>3
<1> QED
  BY <1>4 DEF ParseStream, Streams

\* A plan against a probe, from its rungs to its tasks.
LEMMA PlanOfSource ==
    ASSUME PipelineInvariant, Planned,
           NEW rungs, rungs = RungsFor(Presets[job].ladder, Video)
    PROVE  /\ Video.w \in Nat /\ Video.h \in Nat
           /\ job \in DOMAIN Presets /\ Presets[job].ladder # <<>>
           /\ plan.configs = [i \in DOMAIN rungs |-> ConfigFor(rungs[i], Video, Parse(source))]
           /\ plan.expect = [i \in DOMAIN rungs |->
                               ExpectationFor(rungs[i], plan.configs[i], Video, Parse(source))]
           /\ plan.tasks = PlanTasks(job, [i \in DOMAIN rungs |-> rungs[i].label])
           /\ \A i \in DOMAIN plan.configs : Validate(plan.configs[i])
<1> DEFINE media == Parse(source)
<1>1. /\ source \in Files /\ job \in DOMAIN Presets /\ Presets[job].ladder # <<>>
      /\ NeedsProbe(job) /\ plan = Plan(job, media) /\ plan.error = FALSE
  BY PipelineAssumption DEF PipelineInvariant, PipelineTypeOK, Planned, NeedsProbe
<1>2. TrackOf(media, "video") # <<>>
  BY <1>1 DEF Plan, NoPlan
<1>3. Video = TrackOf(media, "video")[1]
  BY DEF Video
<1>4. Video.w \in Nat /\ Video.h \in Nat
  BY <1>1, <1>2, <1>3, SourceTrack
<1> DEFINE v == TrackOf(media, "video")[1]
           configs == [i \in DOMAIN rungs |-> ConfigFor(rungs[i], v, media)]
           expect == [i \in DOMAIN rungs |-> ExpectationFor(rungs[i], configs[i], v, media)]
           tasks == PlanTasks(job, [i \in DOMAIN rungs |-> rungs[i].label])
<1>5. /\ ~\E i \in DOMAIN configs : ~Validate(configs[i])
      /\ plan = [error |-> FALSE, configs |-> configs, expect |-> expect, tasks |-> tasks]
  <2>1. plan = IF \E i \in DOMAIN configs : ~Validate(configs[i]) THEN NoPlan
               ELSE [error |-> FALSE, configs |-> configs, expect |-> expect, tasks |-> tasks]
    BY <1>1, <1>2, <1>3 DEF Plan
  <2> HIDE DEF configs, expect, tasks
  <2> QED
    BY <1>1, <2>1 DEF NoPlan
<1> HIDE DEF configs, expect, tasks
<1>6. plan.configs = configs /\ plan.expect = expect /\ plan.tasks = tasks
  BY <1>5
<1> QED
  BY <1>1, <1>3, <1>4, <1>5, <1>6 DEF configs, expect, tasks

\* Renditions of a picture of some size descend and keep its shape.
LEMMA PlansDescend == ASSUME PipelineInvariant PROVE RenditionsDescend /\ ShapeKept
<1> SUFFICES ASSUME Planned, HasPicture PROVE RenditionsDescend /\ ShapeKept
  BY DEF RenditionsDescend, ShapeKept
<1> DEFINE rungs == RungsFor(Presets[job].ladder, Video)
           n == Len(rungs)
           w == Video.w
           h == Video.h
           c(i) == plan.configs[i]
<1>1. /\ w \in Nat /\ h \in Nat /\ w >= 2 /\ h >= 2
      /\ IsLadder(Presets[job].ladder) /\ Presets[job].ladder # <<>>
      /\ plan.configs = [i \in DOMAIN rungs |-> ConfigFor(rungs[i], Video, Parse(source))]
  BY PlanOfSource, LaddersDescend DEF HasPicture
<1>2. /\ n \in Nat \ {0} /\ DOMAIN rungs = 1 .. n
      /\ \A i \in 1 .. n : /\ rungs[i].w \in Nat /\ rungs[i].h \in Nat
                           /\ rungs[i].w >= 2 /\ rungs[i].h >= 2
      /\ \A i \in 2 .. n : /\ IsRung(rungs[i]) /\ IsRung(rungs[i - 1])
                           /\ IsBelow(rungs[i], rungs[i - 1]) /\ rungs[i - 1].h <= h
  BY <1>1, RungsAreChosen
<1> HIDE DEF rungs, n, w, h
<1>3. /\ DOMAIN plan.configs = 1 .. n /\ plan.configs # <<>>
      /\ \A i \in 1 .. n : c(i).w = Fit(rungs[i], w, h)[1] /\ c(i).h = Fit(rungs[i], w, h)[2]
  <2>1. DOMAIN plan.configs = 1 .. n /\ 1 \in 1 .. n
    BY <1>1, <1>2
  <2>2. ASSUME NEW i \in 1 .. n
        PROVE  c(i).w = Fit(rungs[i], w, h)[1] /\ c(i).h = Fit(rungs[i], w, h)[2]
    <3>1. plan.configs[i] = ConfigFor(rungs[i], Video, Parse(source))
      BY <1>1, <1>2
    <3> QED
      BY <3>1 DEF ConfigFor, w, h
  <2>3. plan.configs # <<>>
    <3>1. DOMAIN <<>> = {}
      OBVIOUS
    <3> QED
      BY <2>1, <3>1
  <2> QED
    BY <2>1, <2>2, <2>3
<1>4. ASSUME NEW i \in 1 .. n
      PROVE  /\ c(i).w <= w /\ c(i).h <= h /\ c(i).w % 2 = 0 /\ c(i).h % 2 = 0
             /\ c(i).w * h - c(i).h * w <= 2 * (w + h)
             /\ -(c(i).w * h - c(i).h * w) <= 2 * (w + h)
  <2>1. /\ rungs[i].w \in Nat /\ rungs[i].h \in Nat /\ rungs[i].w >= 2 /\ rungs[i].h >= 2
    BY <1>2
  <2> DEFINE size == Fit(rungs[i], w, h)
  <2>2. /\ size[1] <= w /\ size[2] <= h /\ size[1] % 2 = 0 /\ size[2] % 2 = 0
        /\ size[1] * h - size[2] * w <= 2 * (w + h)
        /\ -(size[1] * h - size[2] * w) <= 2 * (w + h)
    BY <1>1, <2>1, RenditionsFitTheSource
  <2>3. c(i).w = size[1] /\ c(i).h = size[2]
    BY <1>3
  <2> HIDE DEF size
  <2> QED
    BY <2>2, <2>3
<1>5. ASSUME NEW i \in 1 .. n, i > 1
      PROVE  /\ c(i).w <= c(i - 1).w /\ c(i).h <= c(i - 1).h
             /\ <<c(i).w, c(i).h>> # <<c(i - 1).w, c(i - 1).h>>
  <2>1. i \in 2 .. n /\ i - 1 \in 1 .. n
    BY <1>2, <1>5
  <2>2. /\ IsRung(rungs[i]) /\ IsRung(rungs[i - 1])
        /\ IsBelow(rungs[i], rungs[i - 1]) /\ rungs[i - 1].h <= h
    BY <1>2, <2>1
  <2> DEFINE a == Fit(rungs[i - 1], w, h)
             b == Fit(rungs[i], w, h)
  <2>3. b[1] <= a[1] /\ b[2] <= a[2] /\ (b[1] # a[1] \/ b[2] # a[2])
    BY <1>1, <2>2, RenditionsAreDistinct
  <2>4. /\ c(i).w = b[1] /\ c(i).h = b[2] /\ c(i - 1).w = a[1] /\ c(i - 1).h = a[2]
    BY <1>3, <2>1
  <2> HIDE DEF a, b
  <2> QED
    BY <2>3, <2>4
<1>6. RenditionsDescend
  BY <1>3, <1>4, <1>5 DEF RenditionsDescend, w, h
<1>7. ShapeKept
  BY <1>3, <1>4 DEF ShapeKept, w, h
<1> QED
  BY <1>6, <1>7

\* What an expectation takes from the rung, the configuration and the source.
LEMMA ExpectationFields ==
    ASSUME NEW rung, NEW cfg, NEW v, NEW media, NEW e, e = ExpectationFor(rung, cfg, v, media)
    PROVE  /\ e.label = rung.label /\ e.codec = "h264" /\ e.w = cfg.w /\ e.h = cfg.h
           /\ e.ms = media.ms /\ e.hdr = v.hdr
BY DEF ExpectationFor

\* The task graph of every job.
LEMMA GraphsAreSound == ASSUME PipelineInvariant PROVE GraphIsSound
<1>1. CASE job = "none"
  <2>1. DOMAIN plan.tasks = {}
    BY <1>1 DEF PipelineInvariant, NoPlan
  <2> QED
    BY <1>1, <2>1 DEF GraphIsSound, Planned
<1>2. CASE job # "none" /\ ~NeedsProbe(job)
  <2>1. plan = [NoPlan EXCEPT !.error = FALSE, !.tasks = <<Task(<<"probe">>, {})>>]
    BY <1>2 DEF PipelineInvariant, Plan
  <2>2. plan.tasks = <<Task(<<"probe">>, {})>>
    BY <2>1 DEF NoPlan
  <2>3. DOMAIN plan.tasks = 1 .. 1 /\ plan.tasks[1].deps = {}
    BY <2>2 DEF Task
  <2> QED
    BY <1>2, <2>3 DEF GraphIsSound, Planned
<1>3. CASE job # "none" /\ NeedsProbe(job)
  <2> DEFINE rungs == RungsFor(Presets[job].ladder, Video)
             n == Len(rungs)
             labels == [i \in DOMAIN rungs |-> rungs[i].label]
  <2>1. Planned
    BY <1>3 DEF Planned
  <2>2. /\ Video.w \in Nat /\ Video.h \in Nat /\ Presets[job].ladder # <<>>
        /\ IsLadder(Presets[job].ladder) /\ Presets[job].package \in BOOLEAN
        /\ plan.tasks = PlanTasks(job, labels)
        /\ plan.expect = [i \in DOMAIN rungs |->
                            ExpectationFor(rungs[i], plan.configs[i], Video, Parse(source))]
    BY <2>1, PlanOfSource, LaddersDescend
  <2>3. /\ n \in Nat /\ DOMAIN rungs = 1 .. n
        /\ \A i, k \in 1 .. n : rungs[i].label = rungs[k].label => i = k
    BY <2>2, RungsAreChosen
  <2> HIDE DEF rungs, n
  <2>4. Len(labels) = n /\ \A i \in 1 .. n : labels[i] = rungs[i].label
    BY <2>3
  <2>5. /\ DOMAIN plan.expect = 1 .. n
        /\ \A i \in 1 .. n : plan.expect[i].label = labels[i]
    <3>1. DOMAIN plan.expect = 1 .. n
      BY <2>2, <2>3
    <3>2. ASSUME NEW i \in 1 .. n PROVE plan.expect[i].label = labels[i]
      <4>1. plan.expect[i] = ExpectationFor(rungs[i], plan.configs[i], Video, Parse(source))
        BY <2>2, <2>3
      <4>2. plan.expect[i].label = rungs[i].label
        BY <4>1, ExpectationFields
      <4> QED
        BY <2>4, <4>2
    <3> QED
      BY <3>1, <3>2
  <2> HIDE DEF labels
  <2>6. IsGraph(plan.tasks) /\ IsStaged(plan.tasks, labels, n)
    <3>1. \A i, k \in 1 .. n : labels[i] = labels[k] => i = k
      BY <2>3, <2>4
    <3>2. n \in Nat /\ Len(labels) = n /\ Presets[job].package \in BOOLEAN
      BY <2>2, <2>3, <2>4
    <3>3. plan.tasks = PlanTasks(job, labels)
      BY <2>2
    <3> QED
      BY <3>1, <3>2, <3>3, TasksAreStaged
  <2>7. {labels[i] : i \in 1 .. n} = {plan.expect[i].label : i \in DOMAIN plan.expect}
    BY <2>5
  <2> QED
    BY <2>6, <2>7 DEF GraphIsSound, IsGraph, IsStaged
<1> QED
  BY <1>1, <1>2, <1>3

\* plan.go's Plan, rungsFor and fit: for every source, whatever its streams, every plan
\* can be carried out and is worth it. Its renditions descend and keep the source's
\* shape, and its graph is closed, acyclic and validates before it packages.
THEOREM PlansAreSound == PipelineSpec => []PlanIsSound
<1>1. PipelineInvariant => PlanIsSound
  BY PlansDescend, GraphsAreSound DEF PlanIsSound, PipelineInvariant
<1> QED
  BY <1>1, PipelineInvariantHolds, PTL

----------------------------------------------------------------------------
(* The verdict *)

\* How far a duration is off.
Drift(asked, found) == IF found < asked THEN asked - found ELSE found - asked

\* The checks of an expectation, one by one, for an output with a picture.
AllChecks(exp, video, audio, drift) ==
    /\ video.codec = exp.codec /\ video.w = exp.w /\ video.h = exp.h
    /\ ~(exp.ms > 0 /\ drift > DurationToleranceMS)
    /\ ~(exp.audio # "" /\ audio = <<>>)
    /\ ~(exp.audio # "" /\ audio # <<>> /\ audio[1].codec # exp.audio)
    /\ ~(exp.hdr # "" /\ video.hdr # exp.hdr)

LEMMA CompareChecks ==
    ASSUME NEW exp, NEW actual, TrackOf(actual, "video") # <<>>
    PROVE  Compare(exp, actual) = {} <=>
             AllChecks(exp, TrackOf(actual, "video")[1], TrackOf(actual, "audio"),
                       Drift(exp.ms, actual.ms))
<1> DEFINE video == TrackOf(actual, "video")[1]
           audio == TrackOf(actual, "audio")
           drift == Drift(exp.ms, actual.ms)
           Long == exp.ms > 0 /\ drift > DurationToleranceMS
           Fails(c) == CASE c = "codec" -> video.codec # exp.codec
                         [] c = "resolution" -> video.w # exp.w \/ video.h # exp.h
                         [] c = "duration" -> Long
                         [] c = "audio_present" -> exp.audio # "" /\ audio = <<>>
                         [] c = "audio_codec" -> exp.audio # "" /\ audio # <<>>
                                                 /\ audio[1].codec # exp.audio
                         [] c = "hdr_format" -> exp.hdr # "" /\ video.hdr # exp.hdr
           checks == {"codec", "resolution", "duration", "audio_present", "audio_codec",
                      "hdr_format"}
<1>1. Compare(exp, actual) = {c \in checks : Fails(c)}
  BY DEF Compare, Drift
<1>2. Compare(exp, actual) = {} <=> \A c \in checks : ~Fails(c)
  <2> HIDE DEF Fails, checks
  <2> QED
    BY <1>1
<1> HIDE DEF Long, video, audio, drift
<1>3. /\ Fails("codec") <=> video.codec # exp.codec
      /\ Fails("resolution") <=> (video.w # exp.w \/ video.h # exp.h)
      /\ Fails("duration") <=> Long
      /\ Fails("audio_present") <=> (exp.audio # "" /\ audio = <<>>)
      /\ Fails("audio_codec") <=> (exp.audio # "" /\ audio # <<>> /\ audio[1].codec # exp.audio)
      /\ Fails("hdr_format") <=> (exp.hdr # "" /\ video.hdr # exp.hdr)
  OBVIOUS
<1> HIDE DEF Fails
<1> QED
  BY <1>2, <1>3 DEF Long, AllChecks, video, audio, drift

\* What parse.go copies from a stream.
LEMMA StreamFields ==
    ASSUME NEW s
    PROVE  /\ ParseStream(s).kind = s.kind /\ ParseStream(s).codec = s.codec
           /\ ParseStream(s).w = s.w /\ ParseStream(s).h = s.h
           /\ ParseStream(s).hdr = DetectHDR(s)
BY DEF ParseStream

\* An output begins with its picture; sound, if there is any, comes second.
IsOutput(file) ==
    /\ file.streams[1].kind = "video"
    /\ \/ Len(file.streams) = 1
       \/ Len(file.streams) = 2 /\ file.streams[2].kind = "audio"

LEMMA OutputTracks ==
    ASSUME NEW file, IsOutput(file)
    PROVE  /\ TrackOf(Parse(file), "video") = <<ParseStream(file.streams[1])>>
           /\ Len(file.streams) = 1 => TrackOf(Parse(file), "audio") = <<>>
           /\ Len(file.streams) = 2 =>
                TrackOf(Parse(file), "audio") = <<ParseStream(file.streams[2])>>
<1> DEFINE n == Len(file.streams)
           t == Parse(file).tracks
<1>1. n \in {1, 2} /\ n \in Nat /\ 1 \in 1 .. n
  BY DEF IsOutput
<1>2. DOMAIN t = 1 .. n /\ \A i \in 1 .. n : t[i] = ParseStream(file.streams[i])
  BY <1>1, ParsedTracks
<1>3. \A i \in 1 .. n : t[i].kind = file.streams[i].kind
  BY <1>2, StreamFields
<1>4. t[1].kind = "video" /\ (n = 2 => t[2].kind = "audio")
  BY <1>1, <1>3 DEF IsOutput
<1> HIDE DEF t, n
<1>5. TrackOf(Parse(file), "video") = <<t[1]>>
  <2>1. PICK i \in 1 .. n : /\ TrackOf(Parse(file), "video") = <<t[i]>>
                            /\ \A k \in 1 .. i - 1 : t[k].kind # "video"
    BY <1>1, <1>2, <1>4, FirstTrack DEF t
  <2>2. i = 1
    BY <1>1, <1>4, <2>1
  <2> QED
    BY <2>1, <2>2
<1>6. \/ /\ TrackOf(Parse(file), "audio") = <<>>
         /\ \A i \in 1 .. n : t[i].kind # "audio"
      \/ \E i \in 1 .. n : TrackOf(Parse(file), "audio") = <<t[i]>> /\ t[i].kind = "audio"
  <2>1. DOMAIN Parse(file).tracks = 1 .. n
    BY <1>2 DEF t
  <2> QED
    BY <1>1, <2>1, FirstTrack DEF t
<1>7. n = 1 => TrackOf(Parse(file), "audio") = <<>>
  BY <1>1, <1>4, <1>6
<1>8. n = 2 => TrackOf(Parse(file), "audio") = <<t[2]>>
  <2> SUFFICES ASSUME n = 2 PROVE TrackOf(Parse(file), "audio") = <<t[2]>>
    OBVIOUS
  <2>1. PICK i \in 1 .. n : /\ TrackOf(Parse(file), "audio") = <<t[i]>>
                            /\ t[i].kind = "audio"
    <3>1. 2 \in 1 .. n /\ t[2].kind = "audio"
      BY <1>4
    <3> QED
      BY <1>6, <3>1
  <2>2. i = 2
    BY <1>4, <2>1
  <2> QED
    BY <2>1, <2>2
<1> QED
  BY <1>1, <1>2, <1>5, <1>7, <1>8 DEF n

\* The streams of Encodings, one by one.
OutVideo(cfg, tag) ==
    [kind |-> "video", codec |-> "h264", w |-> cfg.w, h |-> cfg.h,
     nominal |-> cfg.fps, average |-> cfg.fps, rotate |-> 0,
     primaries |-> tag.primaries, transfer |-> tag.transfer, matrix |-> tag.matrix,
     range |-> tag.range, side |-> <<>>, channels |-> 0]

OutAudio(cfg) ==
    [OutVideo(cfg, NoColor) EXCEPT !.kind = "audio", !.codec = "aac",
                                   !.channels = cfg.channels]

OutStreams(cfg, tag) ==
    IF cfg.channels = -1 THEN <<OutVideo(cfg, tag)>> ELSE <<OutVideo(cfg, tag), OutAudio(cfg)>>

OutFile(ms0, cfg, tag) == [ms |-> ms0, intact |-> TRUE, streams |-> OutStreams(cfg, tag)]

LEMMA VideoFields ==
    ASSUME NEW cfg, NEW tag
    PROVE  LET s == OutVideo(cfg, tag)
           IN  /\ s.kind = "video" /\ s.codec = "h264" /\ s.w = cfg.w /\ s.h = cfg.h
               /\ s.side = <<>> /\ s.transfer = tag.transfer
BY DEF OutVideo

LEMMA AudioFields ==
    ASSUME NEW cfg
    PROVE  OutAudio(cfg).kind = "audio" /\ OutAudio(cfg).codec = "aac"
BY DEF OutAudio, OutVideo

\* What ffmpeg makes of a file is one picture, tagged with the colour stated or, when
\* none is, with none or the source's, and sound if it was asked for.
LEMMA EncodingShape ==
    ASSUME NEW original, NEW cfg, NEW file \in Encodings(original, cfg)
    PROVE  \E tag : /\ file = OutFile(original.ms, cfg, tag)
                    /\ \/ cfg.color # NoColor /\ tag = cfg.color
                       \/ /\ cfg.color = NoColor
                          /\ tag.transfer \in {"", TrackOf(Parse(original), "video")[1].transfer}
<1> DEFINE in == TrackOf(Parse(original), "video")[1]
           Stated == ColorConfig(in)
           Tags == IF cfg.color # NoColor THEN {cfg.color} ELSE {NoColor, Stated}
<1>1. PICK tag \in Tags : file = OutFile(original.ms, cfg, tag)
  BY DEF Encodings, OutFile, OutStreams, OutVideo, OutAudio
<1>2. CASE cfg.color # NoColor
  BY <1>1, <1>2
<1>3. CASE cfg.color = NoColor
  <2>1. tag \in {NoColor, Stated}
    BY <1>1, <1>3
  <2>2. NoColor.transfer = "" /\ Stated.transfer = in.transfer
    BY DEF NoColor, ColorConfig
  <2>3. tag.transfer \in {"", in.transfer}
    BY <2>1, <2>2
  <2> QED
    BY <1>1, <1>3, <2>3
<1> QED
  BY <1>2, <1>3

\* What a rendition's output is compared with, besides the format.
IsExpected(e, ms0, cfg) ==
    e.codec = "h264" /\ e.w = cfg.w /\ e.h = cfg.h /\ e.ms = ms0

SoundIsExpected(e, cfg) ==
    /\ cfg.channels = -1 => e.audio = ""
    /\ cfg.channels # -1 => e.audio = "aac"

LEMMA StreamsOfOutput ==
    ASSUME NEW cfg, NEW tag, NEW s, s = OutStreams(cfg, tag)
    PROVE  /\ s[1] = OutVideo(cfg, tag)
           /\ cfg.channels = -1 => Len(s) = 1
           /\ cfg.channels # -1 => Len(s) = 2 /\ s[2] = OutAudio(cfg)
BY DEF OutStreams

\* An output that is what its configuration says passes, if it has the format asked
\* for.
LEMMA HonestPasses ==
    ASSUME NEW ms0 \in Nat, NEW cfg, NEW tag, NEW e, IsExpected(e, ms0, cfg),
           SoundIsExpected(e, cfg),
           e.hdr = TransferFormat(tag.transfer),
           NEW file, file = OutFile(ms0, cfg, tag)
    PROVE  CheckIntegrity(TRUE, file.intact) = {} /\ Compare(e, Parse(file)) = {}
<1> DEFINE s == file.streams
           video == ParseStream(s[1])
<1>1. file.ms = ms0 /\ file.intact = TRUE /\ s = OutStreams(cfg, tag)
  BY DEF OutFile
<1>2. /\ s[1] = OutVideo(cfg, tag)
      /\ cfg.channels = -1 => Len(s) = 1
      /\ cfg.channels # -1 => Len(s) = 2 /\ s[2] = OutAudio(cfg)
  BY <1>1, StreamsOfOutput
<1>3. IsOutput(file)
  BY <1>2, VideoFields, AudioFields DEF IsOutput
<1>4. /\ TrackOf(Parse(file), "video") = <<video>>
      /\ cfg.channels # -1 => TrackOf(Parse(file), "audio") = <<ParseStream(s[2])>>
  BY <1>2, <1>3, OutputTracks
<1>5. /\ video.codec = "h264" /\ video.w = cfg.w /\ video.h = cfg.h
      /\ video.hdr = TransferFormat(tag.transfer)
  BY <1>2, VideoFields, StreamFields, PlainFormat
<1>6. cfg.channels # -1 => ParseStream(s[2]).codec = "aac"
  BY <1>2, AudioFields, StreamFields
<1>7. Parse(file).ms = ms0
  BY <1>1 DEF Parse
<1> DEFINE track == TrackOf(Parse(file), "audio")
<1>8. ~(e.audio # "" /\ track = <<>>) /\ ~(e.audio # "" /\ track # <<>> /\ track[1].codec # e.audio)
  <2>1. CASE cfg.channels = -1
    BY <2>1 DEF SoundIsExpected
  <2>2. CASE cfg.channels # -1
    <3>1. track = <<ParseStream(s[2])>>
      BY <1>4, <2>2
    <3>2. e.audio = "aac"
      BY <2>2 DEF SoundIsExpected
    <3> HIDE DEF track
    <3>3. track[1].codec = "aac"
      BY <1>6, <2>2, <3>1
    <3> QED
      BY <3>1, <3>2, <3>3
  <2> QED
    BY <2>1, <2>2
<1> DEFINE drift == Drift(e.ms, Parse(file).ms)
<1>9. ~(e.ms > 0 /\ drift > DurationToleranceMS)
  <2>1. e.ms = ms0
    BY DEF IsExpected
  <2>2. drift = 0
    BY <1>7, <2>1 DEF Drift
  <2> QED
    BY <2>2 DEF DurationToleranceMS
<1>10. TrackOf(Parse(file), "video") # <<>> /\ TrackOf(Parse(file), "video")[1] = video
  BY <1>4
<1> HIDE DEF video, track, drift, s
<1>11. Compare(e, Parse(file)) = {}
  <2>1. AllChecks(e, video, track, drift)
    BY <1>5, <1>8, <1>9 DEF IsExpected, AllChecks
  <2> QED
    BY <2>1, <1>10, CompareChecks DEF track, drift
<1> QED
  BY <1>1, <1>11 DEF CheckIntegrity

\* A damaged output does not.
LEMMA DamagedFails ==
    ASSUME NEW ms0 \in Nat, ms0 > 2 * DurationToleranceMS, NEW cfg, cfg.h \in Nat, NEW tag,
           NEW e, IsExpected(e, ms0, cfg),
           SoundIsExpected(e, cfg),
           NEW d \in {"truncated", "silent", "resized", "corrupted"},
           d = "silent" => cfg.channels # -1,
           NEW file, file = Damaged(OutFile(ms0, cfg, tag), d)
    PROVE  ~(CheckIntegrity(TRUE, file.intact) = {} /\ Compare(e, Parse(file)) = {})
<1> DEFINE s == OutStreams(cfg, tag)
           whole == OutFile(ms0, cfg, tag)
           media == Parse(file)
           video == TrackOf(media, "video")
           audio == TrackOf(media, "audio")
           drift == Drift(e.ms, media.ms)
<1>1. /\ s[1] = OutVideo(cfg, tag) /\ s[1].kind = "video" /\ s[1].h = cfg.h
      /\ cfg.channels = -1 => Len(s) = 1
      /\ cfg.channels # -1 => Len(s) = 2 /\ s[2] = OutAudio(cfg) /\ s[2].kind = "audio"
  BY StreamsOfOutput, VideoFields, AudioFields
<1>2. whole = [ms |-> ms0, intact |-> TRUE, streams |-> s]
  BY DEF OutFile
<1>8. e.ms = ms0 /\ e.h = cfg.h
  BY DEF IsExpected
<1>7. ASSUME video # <<>>, ~AllChecks(e, video[1], audio, drift)
      PROVE  Compare(e, Parse(file)) # {}
  BY <1>7, CompareChecks
<1> HIDE DEF whole
<1>3. CASE d = "corrupted"
  <2>1. file = [whole EXCEPT !.intact = FALSE]
    BY <1>3 DEF Damaged, whole
  <2> HIDE DEF s
  <2>2. file.intact = FALSE
    BY <1>2, <2>1
  <2> QED
    BY <2>2 DEF CheckIntegrity
<1>4. CASE d = "truncated"
  <2>1. file = [whole EXCEPT !.ms = @ \div 2]
    BY <1>4 DEF Damaged, whole
  <2> HIDE DEF s
  <2>2. file = [whole EXCEPT !.ms = ms0 \div 2]
    BY <1>2, <2>1
  <2>3. file.ms = ms0 \div 2 /\ file.streams = s
    BY <1>2, <2>2
  <2>4. IsOutput(file)
    BY <1>1, <2>3 DEF IsOutput
  <2>5. media.ms = ms0 \div 2
    BY <2>3 DEF Parse
  <2>6. e.ms > 0 /\ drift > DurationToleranceMS
    BY <1>8, <2>5 DEF Drift, DurationToleranceMS
  <2>7. video = <<ParseStream(file.streams[1])>>
    BY <2>4, OutputTracks
  <2> HIDE DEF video, audio, drift
  <2>8. video # <<>> /\ ~AllChecks(e, video[1], audio, drift)
    BY <2>6, <2>7 DEF AllChecks
  <2> QED
    BY <1>7, <2>8
<1>5. CASE d = "silent"
  <2>1. file = [whole EXCEPT !.streams = SubSeq(@, 1, 1)]
    BY <1>5 DEF Damaged, whole
  <2>2. s = <<OutVideo(cfg, tag), OutAudio(cfg)>>
    BY <1>5 DEF OutStreams
  <2> DEFINE v == OutVideo(cfg, tag)
             a == OutAudio(cfg)
  <2> HIDE DEF s, v, a
  <2>3. s \in Seq({v, a}) /\ Len(s) = 2 /\ s[1] = v
    BY <2>2 DEF v, a
  <2>4. Len(SubSeq(s, 1, 1)) = 1 /\ SubSeq(s, 1, 1)[1] = v
    BY <2>3
  <2>5. file.streams[1].kind = "video" /\ Len(file.streams) = 1
    <3>1. file.streams = SubSeq(s, 1, 1)
      BY <1>2, <2>1
    <3>2. v.kind = "video"
      BY <1>1, <2>3
    <3> QED
      BY <2>4, <3>1, <3>2
  <2>6. IsOutput(file)
    BY <2>5 DEF IsOutput
  <2>7. video # <<>> /\ audio = <<>>
    BY <2>5, <2>6, OutputTracks
  <2>8. e.audio # ""
    BY <1>5 DEF SoundIsExpected
  <2> HIDE DEF video, audio, drift
  <2>9. ~AllChecks(e, video[1], audio, drift)
    BY <2>7, <2>8 DEF AllChecks
  <2> QED
    BY <1>7, <2>7, <2>9
<1>6. CASE d = "resized"
  <2>1. file = [whole EXCEPT !.streams[1].h = @ + 2]
    BY <1>6 DEF Damaged, whole
  <2> HIDE DEF s
  <2>2. file.streams = [s EXCEPT ![1].h = @ + 2]
    <3>1. whole.streams = s
      BY <1>2
    <3>2. file.streams = [whole.streams EXCEPT ![1].h = @ + 2]
      BY <1>2, <2>1
    <3> QED
      BY <3>1, <3>2
  <2> DEFINE v == [OutVideo(cfg, tag) EXCEPT !.h = @ + 2]
  <2>3. v.kind = "video" /\ v.h = cfg.h + 2
    BY DEF OutVideo
  <2> HIDE DEF v
  <2>4. file.streams = [s EXCEPT ![1] = v]
    BY <1>1, <2>2 DEF v
  <2>5. s = <<OutVideo(cfg, tag)>> \/ s = <<OutVideo(cfg, tag), OutAudio(cfg)>>
    BY DEF s, OutStreams
  <2>6. file.streams = <<v>> \/ file.streams = <<v, OutAudio(cfg)>>
    BY <2>4, <2>5
  <2>7. IsOutput(file) /\ file.streams[1] = v
    <3>1. CASE file.streams = <<v>>
      BY <2>3, <3>1 DEF IsOutput
    <3>2. CASE file.streams = <<v, OutAudio(cfg)>>
      BY <2>3, <3>2, AudioFields DEF IsOutput
    <3> QED
      BY <2>6, <3>1, <3>2
  <2>8. video = <<ParseStream(v)>> /\ ParseStream(v).h = cfg.h + 2
    BY <2>3, <2>7, OutputTracks, StreamFields
  <2> HIDE DEF video, audio, drift
  <2>9. video # <<>> /\ video[1].h # e.h
    BY <1>8, <2>8
  <2>10. ~AllChecks(e, video[1], audio, drift)
    BY <2>9 DEF AllChecks
  <2> QED
    BY <1>7, <2>9, <2>10
<1> QED
  BY <1>3, <1>4, <1>5, <1>6

\* Sound is asked for exactly when the configuration has some.
LEMMA SoundOfPlan ==
    ASSUME NEW rung, NEW cfg, NEW v, NEW media, NEW e, e = ExpectationFor(rung, cfg, v, media)
    PROVE  SoundIsExpected(e, cfg)
<1>1. ASSUME cfg.channels = -1 PROVE e.audio = ""
  BY <1>1 DEF ExpectationFor
<1>2. ASSUME cfg.channels # -1 PROVE e.audio = "aac"
  BY <1>2 DEF ExpectationFor
<1> QED
  BY <1>1, <1>2 DEF SoundIsExpected

\* Validation is asked for what was planned, of every rendition.
LEMMA ExpectedOfPlan ==
    ASSUME PipelineInvariant, NEW i \in DOMAIN plan.configs,
           NEW cfg, cfg = plan.configs[i], NEW e, e = plan.expect[i]
    PROVE  /\ IsExpected(e, source.ms, cfg) /\ SoundIsExpected(e, cfg)
           /\ e.hdr = Video.hdr /\ cfg.color = ColorOf(Video) /\ cfg.h \in Nat
           /\ source.ms \in Nat
<1>1. Planned
  <2>1. DOMAIN <<>> = {}
    OBVIOUS
  <2>2. job # "none"
    BY <2>1 DEF PipelineInvariant, NoPlan
  <2>3. CASE ~NeedsProbe(job)
    <3>1. plan = [NoPlan EXCEPT !.error = FALSE, !.tasks = <<Task(<<"probe">>, {})>>]
      BY <2>2, <2>3 DEF PipelineInvariant, Plan
    <3>2. plan.configs = <<>>
      BY <3>1 DEF NoPlan
    <3> QED
      BY <2>1, <3>2
  <2> QED
    BY <2>2, <2>3 DEF Planned
<1> DEFINE rungs == RungsFor(Presets[job].ladder, Video)
           media == Parse(source)
<1>2. /\ plan.configs = [k \in DOMAIN rungs |-> ConfigFor(rungs[k], Video, media)]
      /\ plan.expect = [k \in DOMAIN rungs |->
                          ExpectationFor(rungs[k], plan.configs[k], Video, media)]
      /\ \A k \in DOMAIN plan.configs : Validate(plan.configs[k])
  BY <1>1, PlanOfSource
<1> HIDE DEF rungs
<1>3. cfg = ConfigFor(rungs[i], Video, media) /\ e = ExpectationFor(rungs[i], cfg, Video, media)
  BY <1>2
<1>4. media.ms = source.ms
  BY DEF Parse
<1>5. source.ms \in Nat
  BY PipelineAssumption DEF PipelineInvariant, PipelineTypeOK, Files
<1> HIDE DEF media
<1>6. IsExpected(e, source.ms, cfg) /\ e.hdr = Video.hdr
  BY <1>3, <1>4, ExpectationFields DEF IsExpected
<1>7. SoundIsExpected(e, cfg)
  BY <1>3, SoundOfPlan
<1>8. cfg.color = ColorOf(Video)
  BY <1>3 DEF ConfigFor
<1>9. cfg.h \in Nat
  BY <1>2 DEF Validate, ValidVideo
<1> QED
  BY <1>5, <1>6, <1>7, <1>8, <1>9

\* An honest encode of a source whose format can be kept has that format.
LEMMA FormatOfHonest ==
    ASSUME FormatIsKept, NEW cfg, cfg.color = ColorOf(Video), NEW tag,
           \/ cfg.color # NoColor /\ tag = cfg.color
           \/ cfg.color = NoColor /\ tag.transfer \in {"", Video.transfer}
    PROVE  Video.hdr = TransferFormat(tag.transfer)
<1> DEFINE c == ColorConfig(Video)
<1>1. Video.hdr = TransferFormat(Video.transfer) /\ (Video.hdr = "sdr" \/ Supported(c))
  BY DEF FormatIsKept
<1>2. cfg.color = IF Supported(c) THEN c ELSE NoColor
  BY DEF ColorOf
<1>3. c.transfer = Video.transfer /\ NoColor.transfer = "" /\ TransferFormat("") = "sdr"
  BY DEF ColorConfig, NoColor, TransferFormat, ToLower
<1> HIDE DEF c
<1>4. CASE tag.transfer = Video.transfer
  BY <1>1, <1>4
<1>5. CASE cfg.color # NoColor /\ tag = cfg.color
  <2>1. tag = c
    BY <1>2, <1>5
  <2> QED
    BY <1>3, <1>4, <2>1
<1>6. CASE cfg.color = NoColor /\ tag.transfer = ""
  <2>1. CASE Supported(c)
    <3>1. Video.transfer = ""
      BY <1>2, <1>3, <1>6, <2>1
    <3> QED
      BY <1>4, <1>6, <3>1
  <2>2. CASE ~Supported(c)
    BY <1>1, <1>3, <1>6, <2>2
  <2> QED
    BY <2>1, <2>2
<1> QED
  BY <1>4, <1>5, <1>6

\* Validation passes what was asked for.
LEMMA HonestSetsPass == ASSUME PipelineInvariant PROVE HonestEncodePasses
<1> SUFFICES ASSUME verdict # "none", FormatIsKept, \A i \in DOMAIN outputs : Honest(i)
             PROVE  verdict = "passed"
  BY DEF HonestEncodePasses
<1>1. ASSUME NEW i \in DOMAIN outputs
      PROVE  /\ CheckIntegrity(TRUE, outputs[i][1].intact) = {}
             /\ Compare(plan.expect[i], Parse(outputs[i][1])) = {}
  <2> DEFINE file == outputs[i][1]
             cfg == plan.configs[i]
             e == plan.expect[i]
  <2>1. file \in Encodings(source, cfg) /\ i \in DOMAIN plan.configs
    BY DEF Honest, PipelineInvariant, PipelineTypeOK
  <2>2. /\ IsExpected(e, source.ms, cfg) /\ SoundIsExpected(e, cfg)
        /\ e.hdr = Video.hdr /\ cfg.color = ColorOf(Video) /\ source.ms \in Nat
    BY <2>1, ExpectedOfPlan
  <2> HIDE DEF file, cfg, e
  <2>3. PICK tag : /\ file = OutFile(source.ms, cfg, tag)
                   /\ \/ cfg.color # NoColor /\ tag = cfg.color
                      \/ cfg.color = NoColor /\ tag.transfer \in {"", Video.transfer}
    BY <2>1, EncodingShape DEF Video
  <2>4. e.hdr = TransferFormat(tag.transfer)
    BY <2>2, <2>3, FormatOfHonest
  <2>5. CheckIntegrity(TRUE, file.intact) = {} /\ Compare(e, Parse(file)) = {}
    BY <2>2, <2>3, <2>4, HonestPasses
  <2> QED
    BY <2>5 DEF file, e
<1>2. Passes(plan.expect, outputs)
  BY <1>1 DEF Passes
<1> QED
  BY <1>2 DEF PipelineInvariant

\* Validation catches every damage to a source of more than a second.
LEMMA DamagedSetsFail == ASSUME PipelineInvariant PROVE DamageIsCaught
<1> SUFFICES ASSUME verdict = "passed", source.ms > 2 * DurationToleranceMS,
                    NEW i \in DOMAIN outputs
             PROVE  Honest(i)
  BY DEF DamageIsCaught
<1> DEFINE file == outputs[i][1]
           cfg == plan.configs[i]
           e == plan.expect[i]
<1>1. outputs[i] # <<>> /\ Passes(plan.expect, outputs) /\ i \in DOMAIN plan.configs
  BY DEF PipelineInvariant, PipelineTypeOK
<1>2. CheckIntegrity(TRUE, file.intact) = {} /\ Compare(e, Parse(file)) = {}
  BY <1>1 DEF Passes
<1>3. file \in Outcomes(source, cfg)
  <2>1. PICK f \in Outcomes(source, plan.configs[i]) : outputs[i] = <<f>>
    BY <1>1 DEF PipelineInvariant
  <2> QED
    BY <2>1
<1>4. /\ IsExpected(e, source.ms, cfg) /\ SoundIsExpected(e, cfg) /\ cfg.h \in Nat
      /\ source.ms \in Nat
  BY <1>1, ExpectedOfPlan
<1>5. Honest(i) <=> file \in Encodings(source, cfg)
  BY <1>1 DEF Honest
<1> HIDE DEF file, cfg, e
<1>6. SUFFICES ASSUME file \notin Encodings(source, cfg) PROVE FALSE
  BY <1>5
<1>7. PICK f \in Encodings(source, cfg), d \in Damages :
        (d = "silent" => cfg.channels >= 0) /\ file = Damaged(f, d)
  BY <1>3, <1>6 DEF Outcomes
<1>8. PICK tag : f = OutFile(source.ms, cfg, tag)
  <2>1. f \in Encodings(source, cfg)
    BY <1>7
  <2>2. \E tag : /\ f = OutFile(source.ms, cfg, tag)
                 /\ \/ cfg.color # NoColor /\ tag = cfg.color
                    \/ cfg.color = NoColor /\ tag.transfer \in {"", Video.transfer}
    BY <2>1, EncodingShape DEF Video
  <2> QED
    BY <2>2
<1>9. /\ d \in {"truncated", "silent", "resized", "corrupted"}
      /\ d = "silent" => cfg.channels # -1
  BY <1>7, PipelineAssumption
<1> QED
  BY <1>2, <1>4, <1>7, <1>8, <1>9, DamagedFails

\* ExpectationFor and Compare: the verdict of the validate task on a finished set is
\* the right one both ways, for every source, every damage and any number of damaged
\* outputs.
THEOREM VerdictsAreRight == PipelineSpec => []VerdictIsRight
<1>1. PipelineInvariant => VerdictIsRight
  BY HonestSetsPass, DamagedSetsFail DEF VerdictIsRight
<1> QED
  BY <1>1, PipelineInvariantHolds, PTL
=============================================================================
