-------------------------------- MODULE Laws --------------------------------
(***************************************************************************)
(* The arithmetic of the control laws: one Execute of VSGAMExtremum, of    *)
(* its variant for 1 kHz and of VSGAMClassic, as the loops compute it.     *)
(* The doubles of the code are integers here and the matrices constants of *)
(* the model, so a sum is exact whatever its order; what the loops read,   *)
(* in which order they overwrite it and where they put it is kept.         *)
(***************************************************************************)
EXTENDS Integers, Sequences

CONSTANTS
    N,                  \* length of the law's state (25)
    A, B, C, D,         \* matrices of VSGAMExtremum
    A1, B1, C1, D1,     \* ... of VSGAMExtremum_1khz
    Cos, Sin,           \* cos and sin of omega t, by t
    alpha, kES,         \* amplitude and gain of the dither, sqrt(omega) included
    Af, Bf, Cf, Df, gain

ASSUME NAssumption == N \in Nat \ {0}

States == 0 .. N - 1
Inputs == 0 .. 25

ASSUME MatricesAssumption ==
    /\ A \in [States -> [States -> Int]] /\ B \in [States -> [Inputs -> Int]]
    /\ C \in [States -> Int] /\ D \in [Inputs -> Int]
    /\ A1 \in [States -> [States -> Int]] /\ B1 \in [States -> [Inputs -> Int]]
    /\ C1 \in [States -> Int] /\ D1 \in [Inputs -> Int]

ASSUME GainsAssumption == Af \in Int /\ Bf \in Int /\ gain \in Int

\* Time is in tenths of a millisecond: 0.0002 s and 0.001 s a sample.
VSGAMExtremum      == [A |-> A, B |-> B, C |-> C, D |-> D, step |-> 2]
VSGAMExtremum_1khz == [A |-> A1, B |-> B1, C |-> C1, D |-> D1, step |-> 10]

\* state and t as constructed.
Fresh == [state |-> [i \in States |-> 0], t |-> 0]

\* A loop that adds row[j] * vector[j] for j = 0 .. n - 1 to a sum.
Accumulate(from, row, vector, n) ==
    LET sum[j \in 0 .. n] ==
            IF j = 0 THEN from ELSE sum[j - 1] + row[j - 1] * vector[j - 1]
    IN  sum[n]

\* u, filled from the six signals.
FillInputs(in) ==
    [j \in Inputs |-> CASE j < 11 -> in.pf_voltages[j]
                        [] j = 11 -> in.vs3
                        [] j \in 12 .. 22 -> in.pf_currents[j - 12]
                        [] j = 23 -> in.ivs3
                        [] j = 24 -> in.ip
                        [] j = 25 -> in.zc]

\* x_hat: C * state + D * u, with the state of before.
Estimate(law, state, u) ==
    Accumulate(Accumulate(0, law.C, state, N), law.D, u, 26)

\* Variation: without temp_state, each row overwrites the state the next
\* row reads.
NextStateInPlace(law, state, u) ==
    LET upTo[i \in 0 .. N] ==
            IF i = 0 THEN state
            ELSE [upTo[i - 1] EXCEPT ![i - 1] =
                      Accumulate(Accumulate(0, law.A[i - 1], upTo[i - 1], N),
                                 law.B[i - 1], u, 26)]
    IN  upTo[N]

\* temp_state: A * state + B * u, complete before it is copied back.
NextState(law, state, u) ==
    [i \in States |->
        Accumulate(Accumulate(0, law.A[i], state, N), law.B[i], u, 26)]

\* VS3_ES: the dither, with the estimate squared in its second term.
Dither(t, x_hat) == alpha * Cos[t] - kES * Sin[t] * x_hat * x_hat

ExecuteLaw(law, es, in) ==
    LET u == FillInputs(in)
    IN  [state   |-> NextState(law, es.state, u),
         vs3_ref |-> Dither(es.t, Estimate(law, es.state, u)),
         t       |-> es.t + law.step]

ExecuteExtremum(es, in) == ExecuteLaw(VSGAMExtremum, es, in)

\* The same steps in a class of its own, with another sampling time.
ExecuteExtremum_1khz(es, in) == ExecuteLaw(VSGAMExtremum_1khz, es, in)

\* Both the output and the state take the drive ivs3 * gain + zdot.
Drive(in) == in.ivs3 * gain + in.zdot

ExecuteClassic(x_old, in) ==
    [vs3_ref |-> Cf * x_old + Df * Drive(in),
     x_old   |-> Af * x_old + Bf * Drive(in)]
-----------------------------------------------------------------------------
(***************************************************************************)
(* What the laws are, as linear systems: the state after a history of      *)
(* inputs is the sum of every input carried through the powers of A.       *)
(***************************************************************************)
Dot(v, w, indices) ==
    LET sum[n \in -1 .. N + 25] ==
            IF n = -1 THEN 0
            ELSE sum[n - 1] + IF n \in indices THEN v[n] * w[n] ELSE 0
    IN  sum[N + 25]

\* The n-th power of a, applied to v.
Power(a, n, v) ==
    LET applied[m \in 0 .. n] ==
            IF m = 0 THEN v
            ELSE [i \in States |-> Dot(a[i], applied[m - 1], States)]
    IN  applied[n]

\* The state after the inputs us, a sequence of vectors.
StateAfter(law, us) ==
    LET carried(m) ==
            Power(law.A, Len(us) - m, [i \in States |-> Dot(law.B[i], us[m], Inputs)])
        total[m \in 0 .. Len(us)] ==
            IF m = 0 THEN [i \in States |-> 0]
            ELSE [i \in States |-> total[m - 1][i] + carried(m)[i]]
    IN  total[Len(us)]

\* The output for u after the inputs us, one sampling time apart.
ExtremumReference(law, us, u) ==
    Dither(law.step * Len(us),
           Dot(law.C, StateAfter(law, us), States) + Dot(law.D, u, Inputs))

\* The classic state after the drives ws, and the output for w after them.
ClassicState(ws) ==
    LET power[n \in Nat] == IF n = 0 THEN 1 ELSE Af * power[n - 1]
        x[m \in 0 .. Len(ws)] ==
            IF m = 0 THEN 0 ELSE x[m - 1] + power[Len(ws) - m] * Bf * ws[m]
    IN  x[Len(ws)]

ClassicReference(ws, w) == Cf * ClassicState(ws) + Df * w
=============================================================================
