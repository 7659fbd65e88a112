---------------------- MODULE TranscriptRecoveryPromise ----------------------
(***************************************************************************)
(* What shell/transcript-recovery-journal.cjs promises its one caller,     *)
(* without files, headers or checksums: a register that survives a crash.  *)
(*                                                                         *)
(*   promised   the contents every later recovery may not fall behind: the *)
(*              last publication answered with ok, or what recovery gave   *)
(*   attempted  publications begun since; a crash may leave either them or *)
(*              the promised contents, never a mixture                     *)
(*   visible    what load() answers, Nothing while no journal is open      *)
(***************************************************************************)
CONSTANTS Contents,   \* what one generation can hold
          Empty,      \* what a journal holds before its first publication
          Nothing     \* no journal is open

VARIABLES promised, attempted, visible

promiseVars == <<promised, attempted, visible>>

Init == /\ promised = Empty
        /\ attempted = {}
        /\ visible = Nothing

\* A publication starts; nothing the caller sees changes.
AttemptOf(c) == /\ visible # Nothing
                /\ attempted' = attempted \union {c}
                /\ UNCHANGED <<promised, visible>>

Attempt == \E c \in Contents : AttemptOf(c)

\* A publication is answered with ok.
AcknowledgeOf(c) == /\ visible # Nothing
                    /\ promised' = c /\ visible' = c
                    /\ attempted' = {}

Acknowledge == \E c \in attempted : AcknowledgeOf(c)

\* The process ends, the machine loses power, or the caller closes the journal.
Stop == /\ visible' = Nothing
        /\ UNCHANGED <<promised, attempted>>

\* A new journal opens over what the last one left behind.
RecoverOf(c) == /\ visible = Nothing
                /\ promised' = c /\ visible' = c
                /\ attempted' = {}

Recover == \E c \in {promised} \union attempted : RecoverOf(c)

Next == Attempt \/ Acknowledge \/ Stop \/ Recover

PromiseSpec == Init /\ [][Next]_promiseVars
=============================================================================
