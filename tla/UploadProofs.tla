---------------------------- MODULE UploadProofs ----------------------------
(***************************************************************************)
(* Proofs about Upload for any number of uploads, versions, part sizes and *)
(* requests in flight.                                                     *)
(***************************************************************************)
EXTENDS UploadInv, GrowingFile, WellFoundedInduction, TLAPS

\* An upload without parts is well typed.
LEMMA NoPartsType ==
    ASSUME NEW u \in Uploads
    PROVE  NoParts(u) \in [Slots(u) -> Bodies(u) \cup {NoBody}]
  BY DEF NoParts

\* A request that ends and changes nothing else disturbs nothing.
LEMMA RequestEnds ==
    ASSUME UploadInvariant, NEW p \in Procs, End(p), UNCHANGED stores
    PROVE  UploadInvariant'
<1> USE DEF UploadInvariant, TypeOK, End, Goto, stores
<1>1. TypeOK'
  OBVIOUS
<1>2. \A w \in Uploads : UploadOK(w)'
  BY DEF UploadOK, VerifyParts
<1>3. \A v \in Versions : VersionOK(v)'
  BY DEF VersionOK
<1>4. \A q \in Procs : RequestOK(q)'
  BY DEF RequestOK, VerifyParts
<1>5. \A q, r \in Procs : OnlyOne(q, r)'
  BY DEF OnlyOne
<1> QED  BY <1>1, <1>2, <1>3, <1>4, <1>5

\* Create opens a multipart upload that has no row yet.
LEMMA CreatePreserves ==
    ASSUME UploadInvariant, NEW p \in Procs, NEW u \in Uploads, Create(p, u)
    PROVE  UploadInvariant'
<1> USE UploadsAssumption DEF UploadInvariant, TypeOK, Create, Begin, Goto
<1>1. TypeOK'
  OBVIOUS
<1>2. \A w \in Uploads : UploadOK(w)'
  BY DEF UploadOK, RequestOK, VerifyParts
<1>3. \A v \in Versions : VersionOK(v)'
  BY DEF VersionOK, RequestOK
<1>4. \A q \in Procs : RequestOK(q)'
  BY DEF RequestOK, UploadOK, OnlyOne, VerifyParts
<1>5. \A q, r \in Procs : OnlyOne(q, r)'
  BY DEF OnlyOne, RequestOK, UploadOK
<1> QED  BY <1>1, <1>2, <1>3, <1>4, <1>5

\* The insert gives the row to the one request that created the upload.
LEMMA RecordUploadPreserves ==
    ASSUME UploadInvariant, NEW p \in Procs, RecordUpload(p)
    PROVE  UploadInvariant'
<1> USE UploadsAssumption DEF UploadInvariant, TypeOK, RecordUpload, End, Goto
<1>1. TypeOK'
  OBVIOUS
<1>2. \A w \in Uploads : UploadOK(w)'
  BY DEF UploadOK, RequestOK, VerifyParts
<1>3. \A v \in Versions : VersionOK(v)'
  BY DEF VersionOK, RequestOK
<1>4. \A q \in Procs : RequestOK(q)'
  BY DEF RequestOK, UploadOK, OnlyOne, VerifyParts
<1>5. \A q, r \in Procs : OnlyOne(q, r)'
  BY DEF OnlyOne, RequestOK, UploadOK
<1> QED  BY <1>1, <1>2, <1>3, <1>4, <1>5

\* Create undoes the multipart upload, whose row exists or not, but has no parts.
LEMMA RecordFailsPreserves ==
    ASSUME UploadInvariant, NEW p \in Procs, RecordFails(p)
    PROVE  UploadInvariant'
<1> USE UploadsAssumption DEF UploadInvariant, TypeOK, RecordFails, End, Goto
<1>1. TypeOK'
  <2>1. cur[p] \in Uploads
    BY DEF RequestOK
  <2>2. row' \in [Uploads -> {"absent", "in_progress", "completed", "aborted"}]
    BY <2>1
  <2> QED  BY <2>1, <2>2
<1>2. \A w \in Uploads : UploadOK(w)'
  BY DEF UploadOK, RequestOK, VerifyParts
<1>3. \A v \in Versions : VersionOK(v)'
  BY DEF VersionOK, RequestOK
<1>4. \A q \in Procs : RequestOK(q)'
  BY DEF RequestOK, UploadOK, OnlyOne, VerifyParts
<1>5. \A q, r \in Procs : OnlyOne(q, r)'
  BY DEF OnlyOne, RequestOK, UploadOK
<1> QED  BY <1>1, <1>2, <1>3, <1>4, <1>5

\* Complete's first read changes only the request.
LEMMA CompleteGetPreserves ==
    ASSUME UploadInvariant, NEW p \in Procs, NEW u \in Uploads, CompleteGet(p, u)
    PROVE  UploadInvariant'
<1> USE UploadsAssumption DEF UploadInvariant, TypeOK, CompleteGet, Begin, Goto, stores
<1>1. TypeOK'
  OBVIOUS
<1>2. \A w \in Uploads : UploadOK(w)'
  BY DEF UploadOK, RequestOK, VerifyParts
<1>3. \A v \in Versions : VersionOK(v)'
  BY DEF VersionOK, RequestOK
<1>4. \A q \in Procs : RequestOK(q)'
  BY DEF RequestOK, UploadOK, OnlyOne, VerifyParts
<1>5. \A q, r \in Procs : OnlyOne(q, r)'
  BY DEF OnlyOne, RequestOK, UploadOK
<1> QED  BY <1>1, <1>2, <1>3, <1>4, <1>5

\* What ListParts returned and verifyParts accepted is remembered as such.
LEMMA ListPartsPreserves ==
    ASSUME UploadInvariant, NEW p \in Procs, ListParts(p)
    PROVE  UploadInvariant'
<1> USE UploadsAssumption DEF UploadInvariant, TypeOK, ListParts, End, Goto, stores
<1>1. TypeOK'
  OBVIOUS
<1>2. \A w \in Uploads : UploadOK(w)'
  BY DEF UploadOK, RequestOK, VerifyParts
<1>3. \A v \in Versions : VersionOK(v)'
  BY DEF VersionOK, RequestOK
<1>4. \A q \in Procs : RequestOK(q)'
  BY DEF RequestOK, UploadOK, OnlyOne, VerifyParts
<1>5. \A q, r \in Procs : OnlyOne(q, r)'
  BY DEF OnlyOne, RequestOK, UploadOK
<1> QED  BY <1>1, <1>2, <1>3, <1>4, <1>5

\* Of all requests at work on an upload only the one that closes it in storage
\* goes on: nobody else can be at `source` or `abortRow` for it.
LEMMA AssemblePreserves ==
    ASSUME UploadInvariant, NEW p \in Procs, Assemble(p)
    PROVE  UploadInvariant'
<1> DEFINE u == cur[p]
           won == multi[u] = "open" /\ part[u] = list[p]
<1> USE UploadsAssumption DEF UploadInvariant, TypeOK
<1>0. u \in Uploads /\ pc[p] = "assemble" /\ VerifyParts(list[p], u) /\ row[u] # "absent"
  BY DEF Assemble, RequestOK
<1>1. UNCHANGED <<row, source, ready>>
  BY DEF Assemble
<1>2. CASE ~won
  <2>1. End(p) /\ UNCHANGED <<multi, part, object>>
    BY <1>2 DEF Assemble
  <2> QED  BY <2>1, <1>1, RequestEnds DEF stores
<1>3. CASE won
  <2> USE <1>3
  <2>1. /\ multi' = [multi EXCEPT ![u] = "assembled"]
        /\ object' = [object EXCEPT ![u] = part[u]]
        /\ part' = [part EXCEPT ![u] = NoParts(u)]
    BY DEF Assemble
  <2>2. \/ pc' = [pc EXCEPT ![p] = "source"] /\ UNCHANGED <<cur, list>>
        \/ End(p)
    BY DEF Assemble, Goto
  <2>3. TypeOK'
    <3>1. \A w \in Uploads : /\ part'[w] \in [Slots(w) -> Bodies(w) \cup {NoBody}]
                             /\ object'[w] \in [Slots(w) -> Bodies(w) \cup {NoBody}]
      BY <1>0, <2>1, NoPartsType
    <3>2. multi' \in [Uploads -> {"none", "open", "assembled", "gone"}]
      BY <1>0, <2>1
    <3>3. /\ pc' \in [Procs -> {"idle", "record", "list", "assemble", "source",
                                "abortMultipart", "abortRow"}]
          /\ cur' \in [Procs -> Uploads \cup {NoUpload}]
          /\ DOMAIN list' = Procs
      BY <1>0, <2>2 DEF End, Goto
    <3> QED  BY <1>1, <2>1, <3>1, <3>2, <3>3
  <2>4. \A w \in Uploads : UploadOK(w)'
    BY <1>0, <1>1, <2>1 DEF UploadOK, VerifyParts
  <2>5. \A v \in Versions : VersionOK(v)'
    BY <1>1 DEF VersionOK
  <2>6. row[u] = "in_progress"
    BY <1>0 DEF UploadOK
  <2>7. \A q \in Procs : pc[q] \in {"record", "source", "abortRow"} => cur[q] # u
    BY <1>0 DEF RequestOK
  <2>8. \A q \in Procs : RequestOK(q)'
    BY <1>0, <1>1, <2>1, <2>2, <2>6, <2>7 DEF RequestOK, End, Goto, VerifyParts
  <2>9. \A q, r \in Procs : OnlyOne(q, r)'
    <3>1. CASE End(p)
      BY <3>1 DEF OnlyOne, End, Goto
    <3>2. CASE pc' = [pc EXCEPT ![p] = "source"] /\ UNCHANGED <<cur, list>>
      BY <1>0, <2>7, <3>2 DEF OnlyOne
    <3> QED  BY <2>2, <3>1, <3>2
  <2> QED  BY <2>3, <2>4, <2>5, <2>8, <2>9
<1> QED  BY <1>2, <1>3

\* The request that assembled the object is the only one to record it.
LEMMA RecordSourcePreserves ==
    ASSUME UploadInvariant, NEW p \in Procs, RecordSource(p)
    PROVE  UploadInvariant'
<1> DEFINE u == cur[p]
           v == VersionOf[u]
<1> USE DEF UploadInvariant, TypeOK
<1>0. /\ u \in Uploads /\ v \in Versions /\ u # NoUpload
      /\ pc[p] = "source" /\ multi[u] = "assembled" /\ row[u] = "in_progress"
  BY UploadsAssumption DEF RecordSource, RequestOK
<1>1. End(p) /\ UNCHANGED <<multi, part, object>>
  BY DEF RecordSource
<1>2. CASE source[v] # NoUpload
  <2>1. UNCHANGED <<source, row, ready>>
    BY <1>2 DEF RecordSource
  <2> QED  BY <2>1, <1>1, RequestEnds DEF stores
<1>3. CASE source[v] = NoUpload
  <2>1. /\ source' = [source EXCEPT ![v] = u]
        /\ row' = [row EXCEPT ![u] = "completed"]
        /\ ready' = ready \cup {v}
    BY <1>3 DEF RecordSource
  <2>2. TypeOK'
    <3>1. source' \in [Versions -> Uploads \cup {NoUpload}] /\ ready' \in SUBSET Versions
      BY <1>0, <2>1
    <3>2. row' \in [Uploads -> {"absent", "in_progress", "completed", "aborted"}]
      BY <1>0, <2>1
    <3> QED  BY <1>1, <3>1, <3>2 DEF End, Goto
  <2>3. \A w \in Uploads : UploadOK(w)'
    <3>1. \A w \in Uploads : row'[w] = "completed" <=> source'[VersionOf[w]] = w
      BY <1>0, <1>3, <2>1, UploadsAssumption DEF UploadOK
    <3> QED  BY <1>0, <1>1, <2>1, <3>1 DEF UploadOK, VerifyParts
  <2>4. \A w \in Versions : VersionOK(w)'
    BY <1>0, <2>1 DEF VersionOK
  <2>5. \A q \in Procs : RequestOK(q)'
    BY <1>0, <1>1, <2>1 DEF RequestOK, OnlyOne, VerifyParts, End, Goto
  <2>6. \A q, r \in Procs : OnlyOne(q, r)'
    BY <1>1 DEF OnlyOne, End, Goto
  <2> QED  BY <2>2, <2>3, <2>4, <2>5, <2>6
<1> QED  BY <1>2, <1>3

\* Abort's first read changes only the request.
LEMMA AbortGetPreserves ==
    ASSUME UploadInvariant, NEW p \in Procs, NEW u \in Uploads, AbortGet(p, u)
    PROVE  UploadInvariant'
<1> USE UploadsAssumption DEF UploadInvariant, TypeOK, AbortGet, Begin, Goto, stores
<1>1. TypeOK'
  OBVIOUS
<1>2. \A w \in Uploads : UploadOK(w)'
  BY DEF UploadOK, RequestOK, VerifyParts
<1>3. \A v \in Versions : VersionOK(v)'
  BY DEF VersionOK, RequestOK
<1>4. \A q \in Procs : RequestOK(q)'
  BY DEF RequestOK, UploadOK, OnlyOne, VerifyParts
<1>5. \A q, r \in Procs : OnlyOne(q, r)'
  BY DEF OnlyOne, RequestOK, UploadOK
<1> QED  BY <1>1, <1>2, <1>3, <1>4, <1>5

\* AbortMultipart wins only over an upload that is still open, so not completed.
LEMMA AbortMultipartPreserves ==
    ASSUME UploadInvariant, NEW p \in Procs, AbortMultipart(p)
    PROVE  UploadInvariant'
<1> DEFINE u == cur[p]
<1> USE DEF UploadInvariant, TypeOK
<1>0. u \in Uploads /\ pc[p] = "abortMultipart" /\ row[u] # "absent"
  BY DEF AbortMultipart, RequestOK
<1>1. UNCHANGED <<row, source, ready, object>>
  BY DEF AbortMultipart
<1>2. CASE multi[u] # "open"
  <2>1. End(p) /\ UNCHANGED <<multi, part>>
    BY <1>2 DEF AbortMultipart
  <2> QED  BY <2>1, <1>1, RequestEnds DEF stores
<1>3. CASE multi[u] = "open"
  <2>1. /\ multi' = [multi EXCEPT ![u] = "gone"]
        /\ part' = [part EXCEPT ![u] = NoParts(u)]
        /\ pc' = [pc EXCEPT ![p] = "abortRow"]
        /\ UNCHANGED <<cur, list>>
    BY <1>3 DEF AbortMultipart, Goto
  <2>2. TypeOK'
    <3>1. \A w \in Uploads : part'[w] \in [Slots(w) -> Bodies(w) \cup {NoBody}]
      BY <1>0, <2>1, NoPartsType
    <3>2. /\ multi' \in [Uploads -> {"none", "open", "assembled", "gone"}]
          /\ pc' \in [Procs -> {"idle", "record", "list", "assemble", "source",
                                "abortMultipart", "abortRow"}]
      BY <1>0, <2>1
    <3> QED  BY <1>1, <2>1, <3>1, <3>2
  <2>3. \A w \in Uploads : UploadOK(w)'
    BY <1>0, <1>1, <1>3, <2>1 DEF UploadOK, VerifyParts
  <2>4. \A v \in Versions : VersionOK(v)'
    BY <1>1 DEF VersionOK
  <2>5. \A q \in Procs : pc[q] \in {"record", "source"} => cur[q] # u
    BY <1>0, <1>3 DEF RequestOK
  <2>6. \A q \in Procs : RequestOK(q)'
    BY <1>0, <1>1, <2>1, <2>5 DEF RequestOK, VerifyParts
  <2>7. \A q, r \in Procs : OnlyOne(q, r)'
    BY <2>1 DEF OnlyOne
  <2> QED  BY <2>2, <2>3, <2>4, <2>6, <2>7
<1> QED  BY <1>2, <1>3

\* The row becomes aborted for an upload that storage has dropped.
LEMMA AbortRowPreserves ==
    ASSUME UploadInvariant, NEW p \in Procs, AbortRow(p)
    PROVE  UploadInvariant'
<1> USE UploadsAssumption DEF UploadInvariant, TypeOK, AbortRow, End, Goto
<1>1. TypeOK'
  OBVIOUS
<1>2. \A w \in Uploads : UploadOK(w)'
  BY DEF UploadOK, RequestOK, VerifyParts
<1>3. \A v \in Versions : VersionOK(v)'
  BY DEF VersionOK, RequestOK
<1>4. \A q \in Procs : RequestOK(q)'
  BY DEF RequestOK, UploadOK, OnlyOne, VerifyParts
<1>5. \A q, r \in Procs : OnlyOne(q, r)'
  BY DEF OnlyOne, RequestOK, UploadOK
<1> QED  BY <1>1, <1>2, <1>3, <1>4, <1>5

\* A part arrives for an upload that is still open.
LEMMA PutPartPreserves ==
    ASSUME UploadInvariant, NEW u \in Uploads, NEW n \in Slots(u), NEW body \in Bodies(u), PutPart(u, n, body)
    PROVE  UploadInvariant'
<1> USE UploadsAssumption DEF UploadInvariant, TypeOK, PutPart
<1>1. TypeOK'
  OBVIOUS
<1>2. \A w \in Uploads : UploadOK(w)'
  BY DEF UploadOK, VerifyParts
<1>3. \A v \in Versions : VersionOK(v)'
  BY DEF VersionOK, RequestOK
<1>4. \A q \in Procs : RequestOK(q)'
  BY DEF RequestOK, UploadOK, OnlyOne, VerifyParts
<1>5. \A q, r \in Procs : OnlyOne(q, r)'
  BY DEF OnlyOne, RequestOK, UploadOK
<1> QED  BY <1>1, <1>2, <1>3, <1>4, <1>5

\* The invariant of uploads: what the database and storage say of an upload fits
\* together in every interleaving of requests, for any number of them.
THEOREM UploadInvariantHolds == Spec => []UploadInvariant
<1>1. Init => UploadInvariant
  <2> SUFFICES ASSUME Init PROVE UploadInvariant
    OBVIOUS
  <2> USE UploadsAssumption DEF Init
  <2>1. TypeOK
    BY NoPartsType DEF TypeOK
  <2>2. \A u \in Uploads : UploadOK(u)
    BY DEF UploadOK
  <2>3. \A v \in Versions : VersionOK(v)
    BY DEF VersionOK
  <2>4. \A p, q \in Procs : RequestOK(p) /\ OnlyOne(p, q)
    BY DEF RequestOK, OnlyOne
  <2> QED  BY <2>1, <2>2, <2>3, <2>4 DEF UploadInvariant
<1>2. UploadInvariant /\ [Next]_vars => UploadInvariant'
  <2> SUFFICES ASSUME UploadInvariant, [Next]_vars
               PROVE  UploadInvariant'
    OBVIOUS
  <2>1. CASE UNCHANGED vars
    BY <2>1 DEF UploadInvariant, TypeOK, UploadOK, VersionOK, RequestOK, OnlyOne,
                VerifyParts, vars, stores
  <2>2. ASSUME NEW p \in Procs, Request(p)
        PROVE  UploadInvariant'
    BY <2>2, CreatePreserves, RecordUploadPreserves, RecordFailsPreserves,
       CompleteGetPreserves, ListPartsPreserves, AssemblePreserves,
       RecordSourcePreserves, AbortGetPreserves, AbortMultipartPreserves,
       AbortRowPreserves, RequestEnds DEF Request, Crash
  <2>3. ASSUME NEW u \in Uploads, NEW n \in Slots(u), NEW body \in Bodies(u),
               PutPart(u, n, body)
        PROVE  UploadInvariant'
    BY <2>3, PutPartPreserves
  <2> QED  BY <2>1, <2>2, <2>3 DEF Next
<1> QED  BY <1>1, <1>2, PTL DEF Spec

----------------------------------------------------------------------------

\* Integer division rounds down.
LEMMA DivBounds ==
    ASSUME NEW a \in Int, NEW b \in Int, b > 0
    PROVE  a \div b \in Int /\ b * (a \div b) <= a /\ a < b * (a \div b) + b
  BY Z3

\* The last part, and only the last, ends where the file does.
LEMMA PartsCoverSize ==
    ASSUME NEW size \in Nat \ {0}, NEW piece \in Nat \ {0}
    PROVE  LET count == PartsNeeded(size, piece)
           IN  count \in Nat \ {0} /\ (count - 1) * piece < size /\ size <= count * piece
<1> DEFINE count == PartsNeeded(size, piece)
<1>1. /\ count \in Int
      /\ piece * count <= size + piece - 1
      /\ size + piece - 1 < piece * count + piece
  BY DivBounds DEF PartsNeeded
<1> HIDE DEF count
<1>2. (count - 1) * piece < size /\ size <= count * piece
  BY <1>1
<1>3. count > 0
  BY <1>1
<1> QED  BY <1>1, <1>2, <1>3 DEF count

\* A set of numbers that is not empty has a least element.
LEMMA LeastNumber ==
    ASSUME NEW S \in SUBSET Nat, S # {}
    PROVE  \E x \in S : \A y \in S : x <= y
<1> DEFINE R == {pair \in Nat \X Nat : pair[1] < pair[2]}
<1>1. R = OpToRel(<, Nat)
  BY DEF OpToRel
<1>2. IsWellFoundedOn(R, Nat)
  BY <1>1, NatLessThanWellFounded
<1>3. PICK x \in S : \A y \in S : <<y, x>> \notin R
  <2> HIDE DEF R
  <2> QED
    BY <1>2, WFMin
<1>4. \A y \in S : ~(y < x)
  BY <1>3
<1> QED
  BY <1>3, <1>4

\* A part as large as the file is enough.
LEMMA OnePart ==
    ASSUME NEW size \in Nat, NEW piece \in Nat \ {0}, size <= piece
    PROVE  PartsNeeded(size, piece) <= maxParts
<1> DEFINE count == PartsNeeded(size, piece)
<1>1. count \in Int /\ piece * count <= size + piece - 1
  BY DivBounds DEF PartsNeeded
<1> HIDE DEF count
<1>2. ASSUME count >= 2 PROVE FALSE
  <2>1. piece * count >= piece * 2
    BY <1>1, <1>2
  <2> QED
    BY <1>1, <2>1
<1> QED
  BY <1>1, <1>2, LimitsAssumption DEF count

\* The loop of PartSizeFor, from any part size on: a function that says where it ends
\* exists, because every part from the file's size on is large enough.
Loop(size, f) ==
    [p \in Nat |-> IF PartsNeeded(size, p) > maxParts THEN f[2 * p] ELSE p]

LEMMA LoopEnds ==
    ASSUME NEW size \in Nat
    PROVE  \E f \in [Nat -> Nat] : f = Loop(size, f)
<1> DEFINE From(n) == \E f \in [Nat -> Nat] : \A p \in Nat : p >= n => f[p] = Loop(size, f)[p]
           S == {n \in Nat : From(n)}
<1>1. size + 1 \in S
  <2> DEFINE f == [p \in Nat |-> p]
  <2>1. \A p \in Nat : p >= size + 1 => f[p] = Loop(size, f)[p]
    <3> SUFFICES ASSUME NEW p \in Nat, p >= size + 1 PROVE f[p] = Loop(size, f)[p]
      OBVIOUS
    <3>1. PartsNeeded(size, p) <= maxParts /\ PartsNeeded(size, p) \in Int
      BY OnePart, DivBounds DEF PartsNeeded
    <3> QED
      BY <3>1, LimitsAssumption DEF Loop
  <2>2. f \in [Nat -> Nat]
    OBVIOUS
  <2> HIDE DEF f
  <2> QED
    BY <2>1, <2>2
<1>2. ASSUME NEW n \in S, n > 0 PROVE n - 1 \in S
  <2>1. PICK f \in [Nat -> Nat] : \A p \in Nat : p >= n => f[p] = Loop(size, f)[p]
    BY <1>2
  <2> DEFINE m == n - 1
             v == IF PartsNeeded(size, m) > maxParts /\ m # 0 THEN f[2 * m] ELSE m
             g == [f EXCEPT ![m] = v]
  <2>2. m \in Nat /\ v \in Nat
    <3>1. m \in Nat /\ 2 * m \in Nat
      BY <1>2
    <3> HIDE DEF m
    <3> QED
      BY <3>1, <2>1
  <2>3. g \in [Nat -> Nat] /\ g[m] = v /\ \A p \in Nat : p # m => g[p] = f[p]
    BY <2>2
  <2>4. ASSUME NEW p \in Nat, p >= m PROVE g[p] = Loop(size, g)[p]
    <3>1. CASE p = m /\ m = 0
      BY <3>1, <2>3 DEF Loop
    <3>2. CASE p = m /\ m # 0
      <4>1. 2 * m \in Nat /\ 2 * m # m
        BY <2>2, <3>2
      <4>2. g[2 * m] = f[2 * m]
        BY <4>1, <2>3
      <4> QED
        BY <4>2, <3>2, <2>3, <2>2 DEF Loop
    <3>3. CASE p # m
      <4>1. p >= n /\ 2 * p \in Nat /\ 2 * p # m
        BY <3>3, <2>4
      <4>2. g[p] = f[p] /\ g[2 * p] = f[2 * p]
        BY <4>1, <3>3, <2>3
      <4> HIDE DEF g
      <4> QED
        BY <4>1, <4>2, <2>1 DEF Loop
    <3> QED
      BY <3>1, <3>2, <3>3
  <2> HIDE DEF g
  <2> QED
    BY <2>2, <2>3, <2>4
<1>3. 0 \in S
  <2>1. PICK n \in S : \A y \in S : n <= y
    <3>1. S \in SUBSET Nat /\ S # {}
      BY <1>1
    <3> HIDE DEF S
    <3> QED
      BY <3>1, LeastNumber
  <2>2. CASE n > 0
    <3>1. n - 1 \in S
      BY <2>2, <1>2
    <3> HIDE DEF S
    <3>2. n <= n - 1
      BY <3>1, <2>1
    <3> QED
      BY <3>2, <2>2 DEF S
  <2>3. CASE n = 0
    BY <2>3
  <2> QED
    BY <2>2, <2>3
<1>4. PICK f \in [Nat -> Nat] : \A p \in Nat : p >= 0 => f[p] = Loop(size, f)[p]
  BY <1>3
<1>5. f = Loop(size, f)
  BY <1>4 DEF Loop
<1> QED
  BY <1>5

\* PartSizeFor goes on from a part that is too small to one twice as large, and stops
\* at the first that is not.
LEMMA PartSizeIsLoop ==
    ASSUME NEW size \in Nat
    PROVE  \E f : f = Loop(size, f) /\ PartSizeFor(size) = f[minPartSize]
<1> DEFINE f == CHOOSE f : f = Loop(size, f)
<1>1. f = Loop(size, f)
  BY LoopEnds
<1>2. PartSizeFor(size) = f[minPartSize]
  BY DEF PartSizeFor, Loop
<1> QED
  BY <1>1, <1>2

\* The minimal part size can be doubled any number of times, and grows.
Doubles(size, f) == [k \in 0 .. size |-> IF k = 0 THEN minPartSize ELSE 2 * f[k - 1]]

LEMMA DoublingsExist ==
    ASSUME NEW size \in Nat
    PROVE  /\ Doublings(size) = Doubles(size, Doublings(size))
           /\ \A k \in 0 .. size : Doublings(size)[k] \in Nat \ {0} /\ Doublings(size)[k] > k
<1> DEFINE Good(f, n) == /\ f[n] = Doubles(size, f)[n]
                         /\ f[n] \in Nat \ {0} /\ f[n] > n
           UpTo(n) == \E f \in [0 .. size -> Nat] : \A k \in 0 .. n : Good(f, k)
           Bad == {n \in 0 .. size : ~UpTo(n)}
<1>1. UpTo(0)
  <2> DEFINE f == [k \in 0 .. size |-> minPartSize]
  <2>1. f \in [0 .. size -> Nat] /\ \A k \in 0 .. 0 : Good(f, k)
    BY LimitsAssumption DEF Doubles
  <2> HIDE DEF f
  <2> QED
    BY <2>1
<1>2. ASSUME NEW n \in 0 .. size, n + 1 \in 0 .. size, UpTo(n) PROVE UpTo(n + 1)
  <2>1. PICK f \in [0 .. size -> Nat] : \A k \in 0 .. n : Good(f, k)
    BY <1>2
  <2> DEFINE g == [f EXCEPT ![n + 1] = 2 * f[n]]
  <2>2. /\ g \in [0 .. size -> Nat] /\ g[n + 1] = 2 * f[n]
        /\ \A k \in 0 .. n : g[k] = f[k]
    BY <1>2
  <2>3. f[n] \in Nat \ {0} /\ f[n] > n
    BY <2>1
  <2> HIDE DEF g
  <2>4. Good(g, n + 1)
    <3>1. n + 1 # 0 /\ (n + 1) - 1 = n /\ g[n] = f[n]
      BY <2>2
    <3>2. g[n + 1] = Doubles(size, g)[n + 1]
      BY <1>2, <2>2, <3>1 DEF Doubles
    <3> QED
      BY <3>2, <2>2, <2>3
  <2>5. ASSUME NEW k \in 0 .. n PROVE Good(g, k)
    <3>1. Good(f, k) /\ g[k] = f[k] /\ k \in 0 .. size
      BY <2>1, <2>2
    <3>2. CASE k = 0
      BY <3>1, <3>2 DEF Doubles
    <3>3. CASE k # 0
      <4>1. k - 1 \in 0 .. n /\ g[k - 1] = f[k - 1]
        BY <3>3, <2>2
      <4> QED
        BY <3>1, <3>3, <4>1 DEF Doubles
    <3> QED
      BY <3>2, <3>3
  <2>6. \A k \in 0 .. n + 1 : Good(g, k)
    <3>1. \A k \in 0 .. n + 1 : k \in 0 .. n \/ k = n + 1
      OBVIOUS
    <3> HIDE DEF Good
    <3> QED
      BY <3>1, <2>4, <2>5
  <2> HIDE DEF Good
  <2> QED
    BY <2>2, <2>6
<1> HIDE DEF UpTo
<1>3. UpTo(size)
  <2> SUFFICES ASSUME Bad # {} PROVE FALSE
    OBVIOUS
  <2>1. PICK n \in Bad : \A y \in Bad : n <= y
    <3>1. Bad \in SUBSET Nat /\ Bad # {}
      OBVIOUS
    <3> HIDE DEF Bad
    <3> QED
      BY <3>1, LeastNumber
  <2>2. n # 0 /\ n \in Nat /\ n <= size /\ ~UpTo(n)
    BY <1>1
  <2>3. n - 1 \in 0 .. size /\ n - 1 \notin Bad
    BY <2>1, <2>2
  <2>4. UpTo(n - 1)
    BY <2>3
  <2> QED
    BY <2>2, <2>3, <2>4, <1>2
<1>4. PICK f \in [0 .. size -> Nat] : \A k \in 0 .. size : Good(f, k)
  BY <1>3 DEF UpTo
<1>5. f = Doubles(size, f)
  BY <1>4 DEF Doubles
<1> DEFINE h == CHOOSE h : h = Doubles(size, h)
<1>6. Doublings(size) = h
  BY DEF Doublings, Doubles
<1>7. h = Doubles(size, h)
  BY <1>5
<1> HIDE DEF h
<1> DEFINE Wrong == {k \in 0 .. size : ~(h[k] \in Nat \ {0} /\ h[k] > k)}
<1>8. Wrong = {}
  <2> SUFFICES ASSUME Wrong # {} PROVE FALSE
    OBVIOUS
  <2>1. PICK n \in Wrong : \A y \in Wrong : n <= y
    <3>1. Wrong \in SUBSET Nat /\ Wrong # {}
      OBVIOUS
    <3> HIDE DEF Wrong
    <3> QED
      BY <3>1, LeastNumber
  <2>2. n # 0
    <3>1. 0 \in 0 .. size
      OBVIOUS
    <3>2. h[0] = minPartSize
      BY <1>7, <3>1 DEF Doubles
    <3> QED
      BY <3>2, LimitsAssumption
  <2>3. n - 1 \in 0 .. size /\ n - 1 \notin Wrong
    BY <2>1, <2>2
  <2>4. h[n] = 2 * h[n - 1]
    BY <1>7, <2>2 DEF Doubles
  <2> QED
    BY <2>3, <2>4
<1> QED
  BY <1>6, <1>7, <1>8

\* PartSizeFor, for every limit and every size: it ends, at the first doubling of the
\* minimal part size with which the file has no more parts than the provider allows.
LEMMA LimitIsKept ==
    ASSUME NEW size \in Nat
    PROVE  PartsWithinLimit(size) /\ PartSizeFor(size) \in Nat \ {0}
<1>1. PICK f : f = Loop(size, f) /\ PartSizeFor(size) = f[minPartSize]
  BY PartSizeIsLoop
<1> DEFINE D == Doublings(size)
           Enough == {k \in 0 .. size : PartsNeeded(size, D[k]) <= maxParts}
<1>2. /\ D = Doubles(size, D)
      /\ \A k \in 0 .. size : D[k] \in Nat \ {0} /\ D[k] > k
  BY DoublingsExist
<1> HIDE DEF D
<1>3. size \in Enough
  BY <1>2, OnePart
<1>4. PICK k \in Enough : \A y \in Enough : k <= y
  <2>1. Enough \in SUBSET Nat /\ Enough # {}
    BY <1>3
  <2> HIDE DEF Enough
  <2> QED
    BY <2>1, LeastNumber
<1>5. \A m \in 0 .. k - 1 : PartsNeeded(size, D[m]) > maxParts
  <2> SUFFICES ASSUME NEW m \in 0 .. k - 1 PROVE PartsNeeded(size, D[m]) > maxParts
    OBVIOUS
  <2>1. m \in 0 .. size /\ m \notin Enough
    BY <1>4
  <2>2. PartsNeeded(size, D[m]) \in Int
    BY <2>1, <1>2, DivBounds DEF PartsNeeded
  <2> QED
    BY <2>1, <2>2, LimitsAssumption
<1>6. f[minPartSize] = f[D[k]]
  <2> DEFINE Off == {m \in 0 .. k : f[minPartSize] # f[D[m]]}
  <2> SUFFICES ASSUME Off # {} PROVE FALSE
    BY <1>4
  <2>1. PICK n \in Off : \A y \in Off : n <= y
    <3>1. Off \in SUBSET Nat /\ Off # {}
      BY <1>4
    <3> HIDE DEF Off
    <3> QED
      BY <3>1, LeastNumber
  <2>2. n # 0
    <3>1. 0 \in 0 .. size
      OBVIOUS
    <3>2. D[0] = minPartSize
      BY <1>2, <3>1 DEF Doubles
    <3> QED
      BY <3>2
  <2>3. n - 1 \in 0 .. k - 1 /\ n - 1 \in 0 .. size /\ n \in 0 .. size /\ n - 1 \notin Off
    BY <2>1, <2>2, <1>4
  <2>4. D[n] = 2 * D[n - 1] /\ D[n - 1] \in Nat
    BY <1>2, <2>2, <2>3 DEF Doubles
  <2>5. f[D[n - 1]] = f[2 * D[n - 1]]
    BY <1>1, <1>5, <2>3, <2>4 DEF Loop
  <2> QED
    BY <2>3, <2>4, <2>5
<1>7. f[D[k]] = D[k]
  <2>1. D[k] \in Nat \ {0} /\ PartsNeeded(size, D[k]) <= maxParts
    BY <1>2, <1>4
  <2>2. PartsNeeded(size, D[k]) \in Int
    BY <2>1, DivBounds DEF PartsNeeded
  <2> QED
    BY <1>1, <2>1, <2>2, LimitsAssumption DEF Loop
<1> QED
  BY <1>1, <1>2, <1>4, <1>5, <1>6, <1>7 DEF PartsWithinLimit, D

\* verifyParts expects of every part the length of its range of the file.
LEMMA WantIsRange ==
    ASSUME NEW u \in Uploads, NEW n \in Slots(u)
    PROVE  Want(n, PartCount(u), PartSize(u), Size[u]) = RangeLength(u, n)
<1> DEFINE count == PartCount(u)
           piece == PartSize(u)
           size == Size[u]
<1>1. piece \in Nat \ {0} /\ size \in Nat \ {0}
  BY LimitIsKept, UploadsAssumption DEF PartSize
<1>2. count \in Nat \ {0} /\ (count - 1) * piece < size /\ size <= count * piece
  BY <1>1, PartsCoverSize DEF PartCount
<1>3. n \in 1 .. count
  BY DEF Slots
<1> HIDE DEF count, piece, size
<1>4. CASE n = count
  <2>1. size - piece * (count - 1)
          = (IF n * piece < size THEN n * piece ELSE size) - (n - 1) * piece
    BY <1>1, <1>2, <1>4
  <2> QED  BY <2>1, <1>4 DEF Want, RangeLength, count, piece, size
<1>5. CASE n # count
  <2>1. n <= count - 1
    BY <1>2, <1>3, <1>5
  <2>2. n * piece <= (count - 1) * piece
    BY <1>1, <1>2, <1>3, <2>1
  <2>3. n * piece < size /\ n * piece - (n - 1) * piece = piece
    BY <1>1, <1>2, <1>3, <2>2
  <2> QED  BY <2>3, <1>5 DEF Want, RangeLength, count, piece, size
<1> QED  BY <1>4, <1>5

\* No source is ever recorded for a file with a missing, short, long or shifted
\* part, however requests overlap.
THEOREM SourcesAreWhole == Spec => []SourceIsWhole
<1>1. UploadInvariant => SourceIsWhole
  <2> SUFFICES ASSUME UploadInvariant, NEW v \in Versions, NEW u \in Uploads, source[v] = u
               PROVE  /\ VersionOf[u] = v /\ multi[u] = "assembled"
                      /\ \A n \in Slots(u) : /\ object[u][n] # NoBody
                                             /\ object[u][n].size = RangeLength(u, n)
    BY DEF SourceIsWhole
  <2>1. VersionOf[u] = v
    BY UploadsAssumption DEF UploadInvariant, VersionOK
  <2>2. multi[u] = "assembled" /\ VerifyParts(object[u], u)
    BY <2>1 DEF UploadInvariant, UploadOK
  <2> QED  BY <2>1, <2>2, WantIsRange DEF VerifyParts
<1> QED  BY <1>1, UploadInvariantHolds, PTL

\* The status, the source and the version agree after every transaction.
THEOREM CompletedIsTheSource == Spec => []CompletedIsSource
<1>1. UploadInvariant => CompletedIsSource
  BY DEF UploadInvariant, UploadOK, VersionOK, CompletedIsSource
<1> QED  BY <1>1, UploadInvariantHolds, PTL

\* Nothing of an aborted upload stays in storage.
THEOREM AbortsLeaveNothing == Spec => []AbortLeavesNothing
<1>1. UploadInvariant => AbortLeavesNothing
  BY DEF UploadInvariant, UploadOK, AbortLeavesNothing
<1> QED  BY <1>1, UploadInvariantHolds, PTL

\* No step takes back a completion, an abort or a version's source.
THEOREM VerdictsAreFinal == Spec => VerdictFinal
<1> DEFINE Final ==
      /\ \A u \in Uploads : row[u] \in {"completed", "aborted"} => row'[u] = row[u]
      /\ \A v \in Versions : source[v] # NoUpload => source'[v] = source[v]
<1>1. UploadInvariant /\ [Next]_vars => [Final]_vars
  <2> SUFFICES ASSUME UploadInvariant, Next PROVE Final
    OBVIOUS
  <2>1. ASSUME NEW p \in Procs, RecordUpload(p) \/ RecordFails(p) PROVE Final
    BY <2>1 DEF RecordUpload, RecordFails, UploadInvariant, TypeOK, RequestOK
  <2>2. ASSUME NEW p \in Procs, RecordSource(p) PROVE Final
    BY <2>2 DEF RecordSource, UploadInvariant, TypeOK, RequestOK
  <2>3. ASSUME NEW p \in Procs, AbortRow(p) PROVE Final
    BY <2>3 DEF AbortRow, UploadInvariant, TypeOK, RequestOK, UploadOK
  <2>4. ASSUME UNCHANGED <<row, source>> PROVE Final
    BY <2>4
  <2> QED  BY <2>1, <2>2, <2>3, <2>4 DEF Next, Request, Create, PutPart, CompleteGet,
        ListParts, Assemble, AbortGet, AbortMultipart, Crash, stores
<1> QED  BY <1>1, UploadInvariantHolds, PTL DEF Spec, VerdictFinal

\* Create and verifyParts agree on every file and every part size, not only on the
\* doublings PartSizeFor tries: the sizes verifyParts demands of the parts are those
\* of the byte ranges the client is told to send, and none of them is empty.
THEOREM PartsTileEveryFile ==
    ASSUME NEW size \in Nat \ {0}, NEW length \in Nat \ {0}
    PROVE  PartsTile(size, length)
<1> DEFINE count == PartsNeeded(size, length)
           Ends(n) == IF n * length < size THEN n * length ELSE size
<1>1. count \in Nat /\ size <= count * length /\ count * length <= size + length - 1
  <2>1. \A x \in Nat : x \div length \in Nat /\ (x \div length) * length <= x
                       /\ x < (x \div length) * length + length
    OBVIOUS
  <2>2. size + length - 1 \in Nat
    OBVIOUS
  <2> DEFINE x == size + length - 1
  <2>3. count = x \div length
    BY DEF PartsNeeded
  <2> HIDE DEF x, count
  <2>4. count \in Nat /\ count * length <= x /\ x < count * length + length
    BY <2>1, <2>2, <2>3 DEF x
  <2>5. count * length \in Nat
    BY <2>4
  <2> QED
    BY <2>4, <2>5 DEF x
<1> HIDE DEF count
<1>2. count # 0
  BY <1>1
<1>3. count * length \in Nat /\ (count - 1) * length = count * length - length
  BY <1>1
<1>4. Ends(count) = size
  BY <1>1, <1>3
<1>5. ASSUME NEW n \in 1 .. count
      PROVE  /\ Want(n, count, length, size) = Ends(n) - (n - 1) * length
             /\ Want(n, count, length, size) > 0
  <2>1. n \in Nat /\ n <= count /\ (n - 1) * length = n * length - length /\ n * length \in Nat
    BY <1>1
  <2>2. CASE n = count
    <3>1. Want(n, count, length, size) = size - length * (count - 1)
      BY <2>2 DEF Want
    <3>2. length * (count - 1) = count * length - length
      BY <1>1
    <3> QED
      BY <1>1, <1>3, <1>4, <2>1, <2>2, <3>1, <3>2
  <2>3. CASE n < count
    <3>1. Want(n, count, length, size) = length
      BY <1>1, <2>1, <2>3 DEF Want
    <3>2. n * length <= (count - 1) * length
      BY <1>1, <2>1, <2>3
    <3>3. n * length < size
      BY <1>1, <1>3, <2>1, <3>2
    <3> QED
      BY <2>1, <3>1, <3>3
  <2> QED
    BY <1>1, <2>1, <2>2, <2>3
<1> QED
  BY <1>4, <1>5 DEF PartsTile, count

\* PartSizeFor, Create and verifyParts on every file, whatever the provider's limits:
\* the part size is the smallest doubling that keeps the limit, and the parts are the
\* file.
THEOREM PartsFitEveryFile == FileSpec => []PartsFitTheFile
<1> DEFINE Declared == bytes \in Nat \ {0}
<1>1. FileInit => Declared
  BY DEF FileInit
<1>2. Declared /\ [Grow]_fileVars => Declared'
  BY DEF Grow, fileVars
<1>3. Declared => PartsFitTheFile
  BY LimitIsKept, PartsTileEveryFile DEF PartsFitTheFile
<1> HIDE DEF Declared
<1> QED
  BY <1>1, <1>2, <1>3, PTL DEF FileSpec
============================================================================
