----------------------------- MODULE Execution ------------------------------
(***************************************************************************)
(* What a function does, twice: Meaning executes the syntax tree as the    *)
(* language defines it (operands left to right, a jump abandons what       *)
(* surrounds it), Behaviour executes the basic blocks the IR generator     *)
(* made of it.  Both return the trace of what can be observed: each say    *)
(* with its arguments, each ask, and the return with its value.            *)
(*                                                                         *)
(* x is the argument, bits what successive asks answer.  An execution      *)
(* stops when bits run out, after MaxTrace observations, or when fuel is   *)
(* used up by a loop that observes nothing.                                *)
(***************************************************************************)
EXTENDS IRGen

CONSTANTS MaxTrace, Fuel

event(ev, values) == [ev |-> ev, values |-> values]
crash == event("crash", << >>)

-----------------------------------------------------------------------------
(* The tree.  An outcome is how it ended, with which value, in which       *)
(* environment e: the variable x, the bits left, the trace and the fuel.   *)

outcome(out, v, e) == [out |-> out, v |-> v, e |-> e]

observe(e, ev, values) == [e EXCEPT !.trace = Append(@, event(ev, values))]

RECURSIVE Eval(_, _), EvalAll(_, _, _)

(* The nodes in order; the value is the sequence of their values. *)
EvalAll(nodes, vs, e) ==
  IF nodes = << >> THEN outcome("NEXT", vs, e)
  ELSE LET r == Eval(Head(nodes), e)
       IN  IF r.out = "NEXT" THEN EvalAll(Tail(nodes), Append(vs, r.v), r.e) ELSE r

last_or_unit(vs) == IF vs = << >> THEN "unit" ELSE Last(vs)

(* What a node does once all of its children have completed with vs. *)
complete(n, vs, e) ==
  CASE n.k = "say" ->
         IF Len(e.trace) = MaxTrace THEN outcome("STOP", << >>, e)
                                    ELSE outcome("NEXT", "unit", observe(e, "say", vs))
    [] n.k = "xor" -> outcome("NEXT", vs[1] # vs[2], e)
    [] n.k = "not" -> outcome("NEXT", ~vs[1], e)
    [] n.k = "asg" -> outcome("NEXT", "unit", [e EXCEPT !.x = vs[1]])
    [] n.k = "ret" -> outcome("RETURN", last_or_unit(vs), e)
    [] n.k = "brk" -> outcome("BREAK", last_or_unit(vs), e)
    [] n.k = "cont" -> outcome("CONTINUE", << >>, e)
    [] n.k = "exit" -> outcome("RETURN", TRUE, e)
    [] n.k = "blockt" -> outcome("NEXT", Last(vs), e)
    [] OTHER -> outcome("NEXT", "unit", e)                     \* let, block, unit

(* One more turn of loop n after its body ended with r. *)
repeat(n, r) ==
  CASE r.out \in {"NEXT", "CONTINUE"} ->
         IF r.e.fuel = 0 THEN outcome("STOP", << >>, r.e)
                         ELSE Eval(n, [r.e EXCEPT !.fuel = @ - 1])
    [] r.out = "BREAK" -> outcome("NEXT", r.v, r.e)
    [] OTHER -> r

Eval(n, e) ==
  CASE n.k = "true" -> outcome("NEXT", TRUE, e)
    [] n.k = "false" -> outcome("NEXT", FALSE, e)
    [] n.k = "x" -> outcome("NEXT", e.x, e)
    [] n.k = "ask" ->
         IF e.bits = << >> \/ Len(e.trace) = MaxTrace THEN outcome("STOP", << >>, e)
         ELSE outcome("NEXT", Head(e.bits), observe([e EXCEPT !.bits = Tail(@)], "ask", << >>))
    [] n.k \in FunctionKinds -> outcome("NEXT", "unit", e)
    [] n.k \in ShortCircuit ->
         LET left == Eval(n.s[1], e)
         IN  IF left.out = "NEXT" /\ left.v = (n.k = "and") THEN Eval(n.s[2], left.e) ELSE left
    [] n.k = "if" ->
         LET c == Eval(n.s[1], e)
         IN  CASE c.out # "NEXT" -> c
               [] c.out = "NEXT" /\ c.v -> Eval(n.s[2], c.e)
               [] OTHER -> IF Len(n.s) = 3 THEN Eval(n.s[3], c.e) ELSE outcome("NEXT", "unit", c.e)
    [] n.k = "while" ->
         LET c == Eval(n.s[1], e)
         IN  CASE c.out # "NEXT" -> c
               [] c.out = "NEXT" /\ c.v -> repeat(n, Eval(n.s[2], c.e))
               [] OTHER -> outcome("NEXT", "unit", c.e)
    [] n.k = "loop" -> repeat(n, Eval(n.s[1], e))
    [] OTHER -> LET r == EvalAll(n.s, << >>, e)
                IN  IF r.out = "NEXT" THEN complete(n, r.v, r.e) ELSE r

Meaning(fn, x, bits) ==
  LET r == Eval(fn.s[1], [x |-> x, bits |-> bits, trace |-> << >>, fuel |-> Fuel])
      value == IF fn.k = "fn" THEN << >> ELSE <<r.v>>
  IN  IF r.out \in {"NEXT", "RETURN"} THEN observe(r.e, "ret", value).trace ELSE r.e.trace

-----------------------------------------------------------------------------
(* The blocks.  A machine has the registers and the slots defined so far;  *)
(* to use one that is not, or to run off the end of a block, is a crash.   *)

RECURSIVE Run(_, _, _, _)

constants == (False :> FALSE) @@ (True :> TRUE)

usable(inst, m) ==
  CASE inst.op = "load" -> inst.use[1] \in DOMAIN m.memory
    [] inst.op = "store" -> inst.use[1] \in DOMAIN m.registers /\ inst.use[2] \in m.slots
    [] OTHER -> \A i \in DOMAIN inst.use : inst.use[i] \in DOMAIN m.registers

define_register(m, inst, value) == [m EXCEPT !.registers = (inst.def :> value) @@ @]

(* The effect of an instruction that is no terminator. *)
execute(inst, m) ==
  LET vs == [i \in DOMAIN inst.use |-> m.registers[inst.use[i]]]
  IN  CASE inst.op = "alloca" -> [m EXCEPT !.slots = @ \cup {inst.def}]
        [] inst.op = "load" -> define_register(m, inst, m.memory[inst.use[1]])
        [] inst.op = "store" -> [m EXCEPT !.memory = (inst.use[2] :> vs[1]) @@ @]
        [] inst.op = "xor" -> define_register(m, inst, vs[1] # vs[2])
        [] inst.op = "not" -> define_register(m, inst, ~vs[1])
        [] inst.op = "say" -> observe(m, "say", SubSeq(vs, 1, Len(vs)))
        [] inst.op = "ask" ->
             define_register(observe([m EXCEPT !.bits = Tail(@)], "ask", << >>), inst, Head(m.bits))

(* The trace from the i-th instruction of block b on. *)
Run(blocks, b, i, m) ==
  IF i > Len(blocks[b]) THEN Append(m.trace, crash)
  ELSE LET inst == blocks[b][i]
           to == [m EXCEPT !.fuel = @ - 1]
       IN  CASE m.fuel = 0 -> m.trace
             [] inst.op = "alloca_void" \/ ~usable(inst, m) -> Append(m.trace, crash)
             [] inst.op = "br" -> Run(blocks, inst.to[1], 1, to)
             [] inst.op = "cond_br" ->
                  Run(blocks, inst.to[IF m.registers[inst.use[1]] THEN 1 ELSE 2], 1, to)
             [] inst.op = "ret" ->
                  observe(m, "ret", [j \in DOMAIN inst.use |-> m.registers[inst.use[j]]]).trace
             [] inst.op \in {"say", "ask"} /\ Len(m.trace) = MaxTrace -> m.trace
             [] inst.op = "ask" /\ m.bits = << >> -> m.trace
             [] OTHER -> Run(blocks, b, i + 1, execute(inst, m))

Behaviour(blocks, entry, x, bits) ==
  Run(blocks, entry, 1,
      [registers |-> (Argument :> x) @@ constants, slots |-> {}, memory |-> << >>, bits |-> bits,
       trace |-> << >>, fuel |-> 8 * Fuel])

-----------------------------------------------------------------------------
Bits(k) == [1..k -> BOOLEAN]

RECURSIVE At(_, _)
At(n, path) == IF path = << >> THEN n ELSE At(n.s[Head(path)], Tail(path))

(* The blocks of the function at path do what its tree means. *)
faithful(path, k) ==
  \A x \in BOOLEAN, bits \in Bits(k) :
    Behaviour(gen.blocks, gen.entries[path], x, bits) = Meaning(At(program, path), x, bits)
=============================================================================
