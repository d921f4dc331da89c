-------------------------------- MODULE Sink --------------------------------
(***************************************************************************)
(* The allocator-free sink of write.rs: a Buf over bytes its caller owns,  *)
(* and with_buf, which runs one formatter over a new Buf.  The same caller *)
(* also writes through the Write trait itself, and after an error goes on  *)
(* with the next piece or the next formatter, over the same bytes.         *)
(*                                                                         *)
(* A byte is "a" for any ASCII character, "lead" and "tail" for the two    *)
(* halves of a longer one, and "old" for what the storage held before.     *)
(* What a formatter does is the sequence of the pieces it would write;     *)
(* Fault among them is where it gives up by itself, such as on a malformed *)
(* format string.                                                          *)
(***************************************************************************)
EXTENDS Integers, Sequences

CONSTANTS
  Capacities,     \* lengths of the caller's bytes
  Slices,         \* what is written through the trait
  Formatters      \* the pieces of each formatter

Fault == <<"fault">>

ASSUME ArgumentAssumption ==
  /\ Capacities \subseteq Nat
  /\ Slices \subseteq Seq({"a", "lead", "tail"})
  /\ Formatters \subseteq Seq(Slices \cup {Fault})

VARIABLES
  storage,        \* the caller's bytes
  len,            \* Buf::len
  user,           \* who writes to the Buf: "caller" or "formatter"; after
                  \* with_buf the Buf is gone and this is its result, "ok"
                  \* or "err"
  job,            \* the pieces of the formatter
  done            \* how many of them it has written

sinkVars == <<storage, len, user, job, done>>

SinkInit ==
  /\ storage \in {[i \in 1..n |-> "old"] : n \in Capacities}
  /\ len = 0 /\ user = "caller" /\ job = <<>> /\ done = 0

-----------------------------------------------------------------------------
(* str::from_utf8 succeeds: no half of a character without the other.      *)
IsUtf8(bytes) ==
  \A i \in DOMAIN bytes :
    /\ bytes[i] = "lead" => i < Len(bytes) /\ bytes[i + 1] = "tail"
    /\ bytes[i] = "tail" => i > 1 /\ bytes[i - 1] = "lead"

(* Every writer of the crate writes a &str or ASCII bytes.                 *)
ASSUME WholePieces ==
  \A t \in Formatters : \A i \in DOMAIN t : IsUtf8(t[i])

(* The bytes with a piece copied behind the first n, and the new length.   *)
Copied(bytes, n, piece) ==
  {[len |-> n + Len(piece),
    bytes |-> [i \in DOMAIN bytes |->
                 IF i \in n+1..n+Len(piece) THEN piece[i - n] ELSE bytes[i]]]}

(* Mutant: what does not fit is cut off.                                   *)
WriteBytesTruncating(bytes, n, piece) ==
  LET room == Len(bytes) - n
  IN  IF ~IsUtf8(piece) THEN {}
      ELSE Copied(bytes, n, SubSeq(piece, 1, IF Len(piece) > room THEN room ELSE Len(piece)))

(* All of the piece or nothing of it; the empty set is an error.           *)
WriteBytes(bytes, n, piece) ==
  IF IsUtf8(piece) /\ n + Len(piece) <= Len(bytes) THEN Copied(bytes, n, piece) ELSE {}

-----------------------------------------------------------------------------
Put(r) == storage' = r.bytes /\ len' = r.len

(* Buf::new over the same bytes, when no formatter is running.             *)
NewBuf ==
  /\ user \in {"ok", "err"}
  /\ user' = "caller" /\ len' = 0 /\ job' = <<>> /\ done' = 0
  /\ UNCHANGED storage

(* The caller writes through the trait itself; an error changes nothing.   *)
WriteSlice ==
  /\ user = "caller"
  /\ \E slice \in Slices : \E r \in WriteBytes(storage, len, slice) : Put(r)
  /\ UNCHANGED <<user, job, done>>

Clear ==
  /\ user = "caller" /\ len' = 0
  /\ UNCHANGED <<storage, user, job, done>>

(* with_buf starts a formatter over a Buf of its own.                      *)
WithBuf ==
  /\ user # "formatter"
  /\ user' = "formatter" /\ job' \in Formatters /\ done' = 0 /\ len' = 0
  /\ UNCHANGED storage

Written ==
  IF job[done + 1] = Fault THEN {} ELSE WriteBytes(storage, len, job[done + 1])

(* Mutant: a piece that does not fit is passed over.                       *)
WriteNextOrSkip ==
  /\ user = "formatter" /\ done < Len(job) /\ job[done + 1] # Fault
  /\ done' = done + 1
  /\ IF Written = {} THEN UNCHANGED <<storage, len>> ELSE \E r \in Written : Put(r)
  /\ UNCHANGED <<user, job>>

WriteNext ==
  /\ user = "formatter" /\ done < Len(job)
  /\ \E r \in Written : Put(r)
  /\ done' = done + 1
  /\ UNCHANGED <<user, job>>

(* The `?` behind every write: the first that fails ends the formatter.    *)
Fail ==
  /\ user = "formatter" /\ done < Len(job) /\ Written = {}
  /\ user' = "err"
  /\ UNCHANGED <<storage, len, job, done>>

Return ==
  /\ user = "formatter" /\ done = Len(job)
  /\ user' = "ok"
  /\ UNCHANGED <<storage, len, job, done>>

SinkNext == NewBuf \/ WriteSlice \/ Clear \/ WithBuf \/ WriteNext \/ Fail \/ Return

SinkSpec == SinkInit /\ [][SinkNext]_sinkVars

-----------------------------------------------------------------------------
AsBytes == SubSeq(storage, 1, len)

(* The expect in Buf::as_str: whatever is written, refused, cleared and    *)
(* written over, the bytes up to len are whole characters.                 *)
AsStrNeverPanics == len <= Len(storage) /\ IsUtf8(AsBytes)

(* The first n pieces of the formatter lie back to back in the bytes up to *)
(* len, each of them whole: piece i between ends[i - 1] and ends[i].       *)
LaidOut(n) ==
  \E ends \in [0..n -> 0..len] :
    /\ ends[0] = 0 /\ ends[n] = len
    /\ \A i \in 1..n :
         /\ ends[i] = ends[i - 1] + Len(job[i])
         /\ \A k \in 1..Len(job[i]) : storage[ends[i - 1] + k] = job[i][k]

(* A call of with_buf that returns Ok has written all of the text, and one *)
(* that returns Err has written the longest run of pieces that fits and    *)
(* met either its own fault or the end of the bytes: no text with a piece  *)
(* missing, and no failure of a text there is room for.  (That prefix is   *)
(* in the caller's bytes, but its length is not returned.)                 *)
FormatterIsAllOrPrefix ==
  /\ user = "ok" => LaidOut(Len(job))
  /\ user = "err" =>
       /\ LaidOut(done)
       /\ \/ job[done + 1] = Fault
          \/ len + Len(job[done + 1]) > Len(storage)

=============================================================================
