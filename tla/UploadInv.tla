----------------------------- MODULE UploadInv -----------------------------
(***************************************************************************)
(* The inductive invariant behind Upload's properties. What makes the      *)
(* unconditional updates of Complete and Abort safe is that storage lets   *)
(* only one of them win: a multipart upload is either assembled, by one    *)
(* request, or aborted.                                                    *)
(***************************************************************************)
EXTENDS Upload

\* The three places an upload is recorded in agree.
UploadOK(u) ==
    /\ multi[u] = "none" => row[u] = "absent"
    /\ row[u] = "completed" => multi[u] = "assembled"
    /\ row[u] = "aborted" => multi[u] = "gone"
    /\ row[u] = "absent" => part[u] = NoParts(u)
    /\ multi[u] # "open" => part[u] = NoParts(u)
    /\ IF multi[u] = "assembled" THEN row[u] # "absent" /\ VerifyParts(object[u], u)
       ELSE object[u] = NoParts(u)
    /\ row[u] = "completed" <=> source[VersionOf[u]] = u

\* A version and the upload recorded as its source agree.
VersionOK(v) ==
    /\ v \in ready <=> source[v] # NoUpload
    /\ source[v] # NoUpload => VersionOf[source[v]] = v

\* What a request knows at each call.
RequestOK(p) ==
    /\ pc[p] # "idle" => cur[p] \in Uploads
    /\ pc[p] = "record" => row[cur[p]] = "absent" /\ multi[cur[p]] = "open"
    /\ pc[p] \in {"list", "assemble", "source", "abortMultipart", "abortRow"} =>
         row[cur[p]] # "absent"
    /\ pc[p] = "assemble" => VerifyParts(list[p], cur[p])
    /\ pc[p] = "source" =>
         multi[cur[p]] = "assembled" /\ row[cur[p]] = "in_progress"
    /\ pc[p] = "abortRow" => multi[cur[p]] = "gone"

\* One request creates an upload, and one assembles it.
OnlyOne(p, q) ==
    pc[p] \in {"record", "source"} /\ pc[q] = pc[p] /\ cur[q] = cur[p] => p = q

\* Storage and database agree about every upload as far as the requests in
\* flight allow, and those requests can only bring them closer.
UploadInvariant ==
    /\ TypeOK
    /\ \A u \in Uploads : UploadOK(u)
    /\ \A v \in Versions : VersionOK(v)
    /\ \A p \in Procs : RequestOK(p)
    /\ \A p, q \in Procs : OnlyOne(p, q)
============================================================================
