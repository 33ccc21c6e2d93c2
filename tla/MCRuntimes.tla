----------------------------- MODULE MCRuntimes -----------------------------
(***************************************************************************)
(* The two runtimes that remember, and the ratio one of them reports.      *)
(* They share nothing: a behaviour is that of one subject.                 *)
(*                                                                         *)
(* Learning runtime: three contexts compete for one set of two ways; files *)
(* whose replay gives an empty or a trained predictor.  The ratio: words   *)
(* of five bits, quotients of four, every argument.  Hypermemory runtime:  *)
(* frames of one and two units; the arena holds two or three units, or     *)
(* (TooSmall) a process may be started with one that a frame exceeds.      *)
(***************************************************************************)
EXTENDS LearningRuntime, L0Ratio, CausalBridge

CONSTANTS c1, c2, c3

VARIABLE subject

MCContexts == {c1, c2, c3}
MCSetOf == [c \in MCContexts |-> 1]

MCTrained == Update(Update(EmptyTable, c1, 1, 1), c2, 2, 2)
MCRecovered == {EmptyTable, MCTrained}

MCBitValues == {1, 2, 4, 8}
MCScales == 0 .. 15

MCFrames == {1, 2}
Enough == {2, 3}
TooSmall == {1, 3}

(* The ratio of 0 and 0 stands for any while it is not the subject.        *)
RuntimesInit ==
  /\ LearningInit /\ RatioInit /\ Init
  /\ \/ subject \in {"learning", "hypermemory"}
        /\ numerator = 0 /\ denominator = 0 /\ scale = 0
     \/ subject = "ratio"

Only(name, others) == subject = name /\ UNCHANGED <<subject, others>>

RuntimesNext ==
  \/ Only("learning", <<ratioVars, vars>>) /\ LearningNext
  \/ Only("ratio", <<learningVars, vars>>) /\ RatioNext
  \/ Only("hypermemory", <<learningVars, ratioVars>>) /\ BridgeNext

RuntimesSpec == RuntimesInit /\ [][RuntimesNext]_<<subject, learningVars, ratioVars, vars>>
=============================================================================
