---------------------------- MODULE UploadParts ----------------------------
(***************************************************************************)
(* The arithmetic of internal/upload/upload.go: how a declared size is cut *)
(* into parts, and what verifyParts demands of the parts that arrived.     *)
(* Sizes are bytes; the provider's limits are constants so that they can   *)
(* be reached.                                                             *)
(***************************************************************************)
EXTENDS Integers

CONSTANTS
    minPartSize,
    maxParts,
    MaxUploadBytes

ASSUME LimitsAssumption ==
    minPartSize \in Nat \ {0} /\ maxParts \in Nat \ {0} /\ MaxUploadBytes \in Nat

\* Parts needed for `size` bytes: the integer division both PartSizeFor and
\* Create spell out.
PartsNeeded(size, part) == (size + part - 1) \div part

\* PartSizeFor: double the part until the count is within the provider's limit.
PartSizeFor(size) ==
    LET Doubled[part \in Nat] ==
          IF PartsNeeded(size, part) > maxParts THEN Doubled[2 * part] ELSE part
    IN  Doubled[minPartSize]

\* Faulty variant of Want: the last part is expected to be full.
WantFull(n, count, part, size) == part

\* The size verifyParts wants of part n.
Want(n, count, part, size) == IF n = count THEN size - part * (count - 1) ELSE part

----------------------------------------------------------------------------

\* PartSizeFor returns the smallest doubling of the minimal part size with which the
\* provider's part limit is kept.
Doublings(size) ==
    LET Doubling[k \in 0 .. size] == IF k = 0 THEN minPartSize ELSE 2 * Doubling[k - 1]
    IN  Doubling

PartsWithinLimit(size) ==
    \E k \in 0 .. size :
        /\ PartSizeFor(size) = Doublings(size)[k]
        /\ PartsNeeded(size, Doublings(size)[k]) <= maxParts
        /\ \A m \in 0 .. k - 1 : PartsNeeded(size, Doublings(size)[m]) > maxParts

\* The parts verifyParts accepts tile a file of `size` bytes cut into parts of
\* `part`: part n is exactly the byte range from (n-1)*part up to n*part or the end
\* of the file, none is empty, and together they are the declared size. This is the
\* range the client is told to send.
PartsTile(size, part) ==
    LET count == PartsNeeded(size, part)
        End(n) == IF n * part < size THEN n * part ELSE size
    IN  /\ End(count) = size
        /\ \A n \in 1 .. count :
             /\ Want(n, count, part, size) = End(n) - (n - 1) * part
             /\ Want(n, count, part, size) > 0
============================================================================
