------------------------------- MODULE Upload -------------------------------
(***************************************************************************)
(* internal/upload: resumable uploads. An upload is a multipart upload in  *)
(* the storage provider and a row in the database, and no transaction      *)
(* spans the two: Create, Complete and Abort each write one and then the   *)
(* other, and may stop in between. Clients send parts straight to storage  *)
(* at any time and may repeat, overlap and abandon their requests.         *)
(***************************************************************************)
EXTENDS UploadParts, Functions

CONSTANTS
    Uploads,    \* uploads that may be started, each with its own storage key
    Versions,   \* asset versions
    VersionOf,  \* [Uploads -> Versions]
    Size,       \* [Uploads -> Nat]: the declared size_bytes
    Tags,       \* contents of equal length that a client may send for a part
    Procs,      \* API requests that may be in flight at once
    NoUpload, NoBody

PartSize(u) == PartSizeFor(Size[u])
PartCount(u) == PartsNeeded(Size[u], PartSize(u))
Slots(u) == 1 .. PartCount(u)

ASSUME UploadsAssumption ==
    /\ VersionOf \in [Uploads -> Versions]
    /\ Size \in [Uploads -> Nat \ {0}]
    /\ NoUpload \notin Uploads

VARIABLES
    row,     \* uploads.status, "absent" before the insert
    source,  \* the upload a version's source_files row was recorded from
    ready,   \* versions whose status is source_ready, and their assets ready
    multi,   \* the multipart upload in storage
    part,    \* what storage holds for each part number
    object,  \* the parts of the assembled object, in order
    pc,      \* the call a request is about to make
    cur,     \* the upload the request is about
    list     \* the parts ListParts returned to it

stores == <<row, source, ready, multi, part, object>>
vars == <<stores, pc, cur, list>>

----------------------------------------------------------------------------

\* A body is its length (short, right or too long) and its content; its ETag is
\* both.
Bodies(u) == [size : 1 .. PartSize(u) + 1, tag : Tags]

NoParts(u) == [n \in Slots(u) |-> NoBody]

TypeOK ==
    /\ row \in [Uploads -> {"absent", "in_progress", "completed", "aborted"}]
    /\ source \in [Versions -> Uploads \cup {NoUpload}]
    /\ ready \in SUBSET Versions
    /\ multi \in [Uploads -> {"none", "open", "assembled", "gone"}]
    /\ DOMAIN part = Uploads /\ DOMAIN object = Uploads
    /\ \A u \in Uploads :
         /\ part[u] \in [Slots(u) -> Bodies(u) \cup {NoBody}]
         /\ object[u] \in [Slots(u) -> Bodies(u) \cup {NoBody}]
    /\ pc \in [Procs -> {"idle", "record", "list", "assemble", "source",
                         "abortMultipart", "abortRow"}]
    /\ cur \in [Procs -> Uploads \cup {NoUpload}]
    /\ DOMAIN list = Procs

Goto(p, label) == pc' = [pc EXCEPT ![p] = label]

Begin(p, u, label) ==
    /\ pc[p] = "idle"
    /\ Goto(p, label)
    /\ cur' = [cur EXCEPT ![p] = u]

\* The request is over, with a response or without one.
End(p) ==
    /\ Goto(p, "idle")
    /\ cur' = [cur EXCEPT ![p] = NoUpload]
    /\ list' = [list EXCEPT ![p] = <<>>]

\* The control plane dies, the client goes away, or a call returns an error.
Crash(p) == pc[p] # "idle" /\ End(p) /\ UNCHANGED stores

----------------------------------------------------------------------------
(* Create *)

\* Create, up to CreateMultipart. Sizes out of range are refused.
Create(p, u) ==
    /\ multi[u] = "none"
    /\ Size[u] > 0 /\ Size[u] <= MaxUploadBytes
    /\ Begin(p, u, "record")
    /\ multi' = [multi EXCEPT ![u] = "open"]
    /\ UNCHANGED <<row, source, ready, part, object, list>>

\* The row is inserted and part URLs are handed out.
RecordUpload(p) ==
    /\ pc[p] = "record"
    /\ row' = [row EXCEPT ![cur[p]] = "in_progress"]
    /\ End(p)
    /\ UNCHANGED <<source, ready, multi, part, object>>

\* The insert fails, or succeeds and its answer is lost, and the multipart upload
\* is aborted again. If storage does not answer either, this is a Crash.
RecordFails(p) ==
    /\ pc[p] = "record"
    /\ \E status \in {"absent", "in_progress"} : row' = [row EXCEPT ![cur[p]] = status]
    /\ multi' = [multi EXCEPT ![cur[p]] = "gone"]
    /\ End(p)
    /\ UNCHANGED <<source, ready, part, object>>

\* A client sends a part to a URL that Create or Status has signed for it.
PutPart(u, n, body) ==
    /\ row[u] # "absent"
    /\ multi[u] = "open"
    /\ part' = [part EXCEPT ![u][n] = body]
    /\ UNCHANGED <<row, source, ready, multi, object, pc, cur, list>>

----------------------------------------------------------------------------
(* Complete *)

\* Complete finds the upload in progress. One that is completed is reported as
\* such, any other is refused.
CompleteGet(p, u) ==
    /\ row[u] = "in_progress"
    /\ Begin(p, u, "list")
    /\ UNCHANGED <<stores, list>>

\* Faulty variant of VerifyParts: every part is there, whatever its size.
VerifyPresent(held, u) == \A n \in Slots(u) : held[n] # NoBody

\* verifyParts: every part is there and has the size it should have.
VerifyParts(held, u) ==
    \A n \in Slots(u) :
        /\ held[n] # NoBody
        /\ held[n].size = Want(n, PartCount(u), PartSize(u), Size[u])

\* ListParts, which knows only open multipart uploads, and verifyParts.
ListParts(p) ==
    LET u == cur[p]
    IN  /\ pc[p] = "list"
        /\ IF multi[u] = "open" /\ VerifyParts(part[u], u)
           THEN /\ list' = [list EXCEPT ![p] = part[u]]
                /\ Goto(p, "assemble")
                /\ UNCHANGED cur
           ELSE End(p)
        /\ UNCHANGED stores

\* The size Head reports of the assembled parts.
ObjectSize(parts) == FoldFunction(LAMBDA body, sum : body.size + sum, 0, parts)

\* CompleteMultipart: storage assembles the parts it was named, if it still
\* holds the multipart upload and those very parts. The size of the result is
\* compared with the declared one.
Assemble(p) ==
    LET u == cur[p]
    IN  /\ pc[p] = "assemble"
        /\ IF multi[u] = "open" /\ part[u] = list[p]
           THEN /\ multi' = [multi EXCEPT ![u] = "assembled"]
                /\ object' = [object EXCEPT ![u] = part[u]]
                /\ part' = [part EXCEPT ![u] = NoParts(u)]
                /\ IF ObjectSize(list[p]) = Size[u]
                   THEN Goto(p, "source") /\ UNCHANGED <<cur, list>>
                   ELSE End(p)
           ELSE End(p) /\ UNCHANGED <<multi, part, object>>
        /\ UNCHANGED <<row, source, ready>>

\* Faulty variant of RecordSource: the upload's own row is forgotten.
RecordSourceOnly(p) ==
    LET v == VersionOf[cur[p]]
    IN  /\ pc[p] = "source"
        /\ IF source[v] = NoUpload
           THEN /\ source' = [source EXCEPT ![v] = cur[p]]
                /\ ready' = ready \cup {v}
           ELSE UNCHANGED <<source, ready>>
        /\ End(p)
        /\ UNCHANGED <<row, multi, part, object>>

\* Complete's transaction: the source, the upload's status and the version's, all
\* or nothing. A version that has a source already (unique asset_version_id)
\* makes it fail.
RecordSource(p) ==
    LET v == VersionOf[cur[p]]
    IN  /\ pc[p] = "source"
        /\ IF source[v] = NoUpload
           THEN /\ source' = [source EXCEPT ![v] = cur[p]]
                /\ row' = [row EXCEPT ![cur[p]] = "completed"]
                /\ ready' = ready \cup {v}
           ELSE UNCHANGED <<source, row, ready>>
        /\ End(p)
        /\ UNCHANGED <<multi, part, object>>

----------------------------------------------------------------------------
(* Abort *)

\* Abort finds the upload in progress; any other is refused.
AbortGet(p, u) ==
    /\ row[u] = "in_progress"
    /\ Begin(p, u, "abortMultipart")
    /\ UNCHANGED <<stores, list>>

\* Faulty variant of AbortMultipart: a multipart upload storage no longer knows
\* counts as aborted.
AbortMultipartTolerant(p) ==
    LET u == cur[p]
    IN  /\ pc[p] = "abortMultipart"
        /\ multi' = [multi EXCEPT ![u] = IF @ = "open" THEN "gone" ELSE @]
        /\ part' = [part EXCEPT ![u] = NoParts(u)]
        /\ Goto(p, "abortRow")
        /\ UNCHANGED <<row, source, ready, object, cur, list>>

\* AbortMultipart drops the parts; storage refuses when there is no such upload.
AbortMultipart(p) ==
    LET u == cur[p]
    IN  /\ pc[p] = "abortMultipart"
        /\ IF multi[u] = "open"
           THEN /\ multi' = [multi EXCEPT ![u] = "gone"]
                /\ part' = [part EXCEPT ![u] = NoParts(u)]
                /\ Goto(p, "abortRow")
                /\ UNCHANGED <<cur, list>>
           ELSE End(p) /\ UNCHANGED <<multi, part>>
        /\ UNCHANGED <<row, source, ready, object>>

\* The status becomes aborted, whatever it is by now.
AbortRow(p) ==
    /\ pc[p] = "abortRow"
    /\ row' = [row EXCEPT ![cur[p]] = "aborted"]
    /\ End(p)
    /\ UNCHANGED <<source, ready, multi, part, object>>

----------------------------------------------------------------------------

Init ==
    /\ row = [u \in Uploads |-> "absent"]
    /\ source = [v \in Versions |-> NoUpload]
    /\ ready = {}
    /\ multi = [u \in Uploads |-> "none"]
    /\ part = [u \in Uploads |-> NoParts(u)]
    /\ object = [u \in Uploads |-> NoParts(u)]
    /\ pc = [p \in Procs |-> "idle"]
    /\ cur = [p \in Procs |-> NoUpload]
    /\ list = [p \in Procs |-> <<>>]

Request(p) ==
    \/ \E u \in Uploads : Create(p, u) \/ CompleteGet(p, u) \/ AbortGet(p, u)
    \/ RecordUpload(p) \/ RecordFails(p)
    \/ ListParts(p) \/ Assemble(p) \/ RecordSource(p)
    \/ AbortMultipart(p) \/ AbortRow(p)
    \/ Crash(p)

Next ==
    \/ \E p \in Procs : Request(p)
    \/ \E u \in Uploads : \E n \in Slots(u), body \in Bodies(u) : PutPart(u, n, body)

Spec == Init /\ [][Next]_vars

----------------------------------------------------------------------------

\* The bytes of the file that part n has to carry.
RangeLength(u, n) ==
    (IF n * PartSize(u) < Size[u] THEN n * PartSize(u) ELSE Size[u])
      - (n - 1) * PartSize(u)

\* A source is recorded only for a finished object in which every part has
\* exactly the bytes of its range: neither a retry, nor a part replaced while the
\* upload is being completed, nor an abort at the same time gets a short or
\* shifted file past Complete. Jobs run on any recorded source.
SourceIsWhole ==
    \A v \in Versions : \A u \in Uploads :
        source[v] = u =>
            /\ VersionOf[u] = v /\ multi[u] = "assembled"
            /\ \A n \in Slots(u) : /\ object[u][n] # NoBody
                                   /\ object[u][n].size = RangeLength(u, n)

\* An upload is completed exactly when it is the source of its version, and a
\* version is ready exactly when it has a source: the three updates of Complete
\* are seen together, also when two uploads race for one version.
CompletedIsSource ==
    /\ \A u \in Uploads : row[u] = "completed" <=> source[VersionOf[u]] = u
    /\ \A v \in Versions : v \in ready <=> source[v] # NoUpload

\* Abort leaves nothing behind in storage, even when it races a Complete: no
\* part and no object of an aborted upload.
AbortLeavesNothing ==
    \A u \in Uploads :
        row[u] = "aborted" => multi[u] = "gone" /\ part[u] = NoParts(u)
                              /\ object[u] = NoParts(u)

\* Complete and Abort both read the status first and write it later without
\* looking again. Even so an upload that has been completed or aborted stays so,
\* and a version keeps its source.
VerdictFinal ==
    [][ /\ \A u \in Uploads : row[u] \in {"completed", "aborted"} => row'[u] = row[u]
        /\ \A v \in Versions : source[v] # NoUpload => source'[v] = source[v] ]_vars
============================================================================
