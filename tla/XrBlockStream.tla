---------------------------- MODULE XrBlockStream ----------------------------
(***************************************************************************)
(* What an iteration over the report blocks of an RTCP XR packet promises, *)
(* stated over the packet's chain of blocks rather than over byte offsets. *)
(*                                                                         *)
(* The blocks lie back to back after a packet header of HeaderSize bytes.  *)
(* Walking the chain stops at the end of the buffer, or at the first block *)
(* whose header or body does not fit in it.  An iteration returns, in      *)
(* chain order, each walked block of a known type that passes its check,   *)
(* and then ends.  Its error flag tells whether a known block failed its   *)
(* check before the block just returned, and at the end whether any did   *)
(* or the chain did not end exactly at the end of the buffer.             *)
(***************************************************************************)
EXTENDS Naturals, Sequences, FiniteSets, Functions, SequencesExt

CONSTANTS
  HeaderSize,       \* bytes of the packet header before the first block
  BlockHeaderSize,  \* bytes of a block header
  KnownTypes        \* the block types an iteration can return

VARIABLES
  chain,  \* the blocks: [type, len (bytes), ok (passes its type's check)]
  size,   \* the bytes of the buffer
  out,    \* <<offset, type>> of each block returned so far
  done,   \* the iteration has ended
  err     \* the error flag as the iteration reports it

absvars == <<chain, size, out, done, err>>

(* Offset of the i-th block of the chain, for i in 1..Len(chain)+1. *)
StartOf(i) ==
  HeaderSize + SumFunctionOnSet([j \in 1..Len(chain) |-> chain[j].len], 1..(i - 1))

Fits(i) ==
  /\ StartOf(i) + BlockHeaderSize <= size
  /\ StartOf(i) + chain[i].len <= size

HeaderFits == HeaderSize <= size

(* The prefix of the chain that a walk visits. *)
Walked == {i \in 1..Len(chain) : HeaderFits /\ \A j \in 1..i : Fits(j)}

CleanEnd == HeaderFits /\ StartOf(Cardinality(Walked) + 1) = size

Bad(i) == chain[i].type \in KnownTypes /\ ~chain[i].ok

(* Indices of the blocks an iteration returns, in chain order. *)
Expected ==
  SetToSortSeq({i \in Walked : chain[i].type \in KnownTypes /\ chain[i].ok}, <)

ErrBefore(i) == \E j \in Walked : j < i /\ Bad(j)

FinalErr == (\E j \in Walked : Bad(j)) \/ ~CleanEnd

Init ==
  /\ chain \in Seq([type : STRING \cup KnownTypes, len : Nat, ok : BOOLEAN])
  /\ size \in Nat
  /\ out = <<>>
  /\ done = FALSE
  /\ err = FALSE

(* A buffer is set up before any block of it is returned. *)
SetBuffer ==
  /\ out = <<>> /\ ~done /\ ~err
  /\ size' \in Nat
  /\ UNCHANGED <<chain, out, done, err>>

(* A new iteration starts from the beginning. *)
Begin ==
  /\ out' = <<>> /\ done' = FALSE /\ err' = FALSE
  /\ UNCHANGED <<chain, size>>

Return ==
  LET i == Expected[Len(out) + 1]
  IN /\ ~done
     /\ Len(out) < Len(Expected)
     /\ out' = Append(out, <<StartOf(i), chain[i].type>>)
     /\ err' = ErrBefore(i)
     /\ UNCHANGED <<chain, size, done>>

Finish ==
  /\ ~done
  /\ Len(out) = Len(Expected)
  /\ done' = TRUE
  /\ err' = FinalErr
  /\ UNCHANGED <<chain, size, out>>

Next == SetBuffer \/ Begin \/ Return \/ Finish

Spec == Init /\ [][Next]_absvars

=============================================================================
