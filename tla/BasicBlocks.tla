----------------------------- MODULE BasicBlocks -----------------------------
(***************************************************************************)
(* class BasicBlock of ir/IRBuilder: a labelled list of instructions in    *)
(* which at most the last one is a terminator.  A block body is a sequence *)
(* of records with at least the field op.  An append after the terminator  *)
(* goes in front of it, unless it is a terminator itself: that one throws. *)
(***************************************************************************)
EXTENDS Naturals, Sequences, SequencesExt

Terminators == {"br", "cond_br", "ret"}

is_terminator(inst) == inst.op \in Terminators

terminators(body) == {i \in 1..Len(body) : is_terminator(body[i])}

ends_in_terminator(body) == Len(body) > 0 /\ is_terminator(body[Len(body)])

(***************************************************************************)
(* append throws on a second terminator and leaves the block alone.        *)
(***************************************************************************)
append_throws(body, inst) == ends_in_terminator(body) /\ is_terminator(inst)

insert_at_front(body, inst) == <<inst>> \o body          \* mutant of insert_before_terminator

insert_before_terminator(body, inst) ==
  LET first == CHOOSE i \in terminators(body) : \A j \in terminators(body) : i <= j
  IN  IF terminators(body) = {} THEN Append(body, inst) ELSE InsertAt(body, first, inst)

append_anywhere(body, inst) == Append(body, inst)        \* mutant of append

append_over(body, inst) ==                               \* mutant of append
  IF ends_in_terminator(body) THEN Append(Front(body), inst) ELSE Append(body, inst)

append(body, inst) ==
  IF ends_in_terminator(body)
    THEN insert_before_terminator(body, inst)
    ELSE Append(body, inst)

(* What append keeps of every block: a terminator has nothing after it. *)
terminator_last(body) == \A i \in 1..Len(body) : is_terminator(body[i]) => i = Len(body)

get_terminator(body) ==
  IF terminators(body) = {} THEN {}
  ELSE {CHOOSE i \in terminators(body) : \A j \in terminators(body) : j <= i}
=============================================================================
