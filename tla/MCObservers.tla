---------------------------- MODULE MCObservers -----------------------------
(* Four inputs: messages of two sizes on two topics; stamps on both sides   *)
(* of the clock bound, zero and absent; sequence numbers of two writers in  *)
(* any order; and frames for two readers, one of which times out.           *)
EXTENDS Observers

CONSTANTS a, b, v, w, r1, r2

Sample(topic, writer, seq, len, header, age) ==
  [topic |-> topic, writer |-> writer, seq |-> seq, len |-> len,
   header |-> header, age |-> age, at |-> 0]

Sizes == {Sample(a, None, 0, 1, "none", 0), Sample(a, None, 0, 3, "stamp", 0),
          Sample(b, None, 0, 1, "stamp", 1)}
Stamps == {Sample(a, None, 0, 1, "stamp", d) : d \in {-1, 2, 3}}
            \cup {Sample(a, None, 0, 1, h, 0) : h \in {"none", "zero"}}
Numbers == {Sample(a, v, n, 1, "none", 0) : n \in 1 .. 5}
             \cup {Sample(a, w, n, 1, "none", 0) : n \in {1, 3}}
Frames == {Sample(a, None, 0, 1, "none", 0)}

Input(samples, n, steps, sessions, readers) ==
  [samples |-> samples, count |-> n, steps |-> steps, sessions |-> sessions,
   readers |-> readers]
MCInputs ==
  [sizes |-> Input(Sizes, 4, {0, 1, 3}, {"bw", "hz"}, {}),
   stamps |-> Input(Stamps, 5, {0}, {"delay"}, {}),
   numbers |-> Input(Numbers, 4, {0}, {"echo"}, {}),
   frames |-> Input(Frames, 3, {0}, {"echo"}, {r1, r2})]
=============================================================================
