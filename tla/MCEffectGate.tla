---------------------------- MODULE MCEffectGate ----------------------------
(* An instance, for TLC, of EffectGate, of the observation of the worker    *)
(* that a BIND names, and of the scan of the journal the gate reads.        *)
EXTENDS EffectGate, WorkerObservation, FrameScanner, TLC

CONSTANTS e1, e2, r1, r2, m1, m2, u1, c1, c2

VARIABLE job              \* which of the three a behaviour runs

MCCase == (r1 :> {m1}) @@ (r2 :> {m2})

MCBindTicks == {-1, 1}

Symmetry == Permutations(Conns)

-----------------------------------------------------------------------------
(* Store files: two attempts, each cut anywhere or wrong in one place, with bytes around them *)

MCLengths == ("1" :> 1) @@ ("2" :> 2) @@ ("4" :> 4)
MCDigest == (<<"a">> :> "d1") @@ (<<"a", "b">> :> "d2")
Whole(l, d, payload, status) == <<"FF", l, d>> \o payload \o <<status, "LF">>
WholeFrames ==
  {Whole("1", "d1", <<"a">>, s) : s \in {"P", "C", "R"}}
  \cup {Whole("2", "d2", <<"a", "b">>, s) : s \in {"P", "C"}}
  \cup {Whole("2", "d1", <<"a", "b">>, "C"), Whole("x", "d1", <<"a">>, "C"),
        Whole("4", "d1", <<"a">>, "C"), Whole("1", "d1", <<"b">>, "C"),
        Whole("1", "d1", <<"a", "b">>, "C")}
Pieces == UNION {{SubSeq(f, 1, n) : n \in 0 .. Len(f)} : f \in WholeFrames}
Rest == {<<>>, <<"a">>, <<"C", "LF">>}
MCFiles == {p \o r \o q : p \in Pieces, r \in Rest, q \in Pieces}

-----------------------------------------------------------------------------
GateInit ==
  /\ job \in {"forward", "observe", "scan"}
  /\ Init /\ ObserveInit
  /\ job # "forward" => gate = CHOOSE g \in {InitialGate(s) : s \in State} : TRUE
  /\ file \in (IF job = "scan" THEN FilesRead ELSE {<<>>}) /\ ScanInit

GateNext ==
  \/ job = "forward" /\ Next /\ UNCHANGED <<observeVars, scanVars, job>>
  \/ job = "observe" /\ ObserveNext /\ UNCHANGED <<vars, scanVars, job>>
  \/ job = "scan" /\ ScanNext /\ UNCHANGED <<vars, observeVars, job>>

GateSpec == GateInit /\ [][GateNext]_<<vars, observeVars, scanVars, job>>
=============================================================================
