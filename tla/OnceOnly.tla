---------------------------- MODULE OnceOnly ----------------------------
(* What a store of versioned things promises to clients who name every command by *)
(* a key and send it again when they have lost the answer: a key stands for one   *)
(* command, the command is performed once, at the version its author has seen, and *)
(* every answer to the key is the answer to that command.  No version of a thing   *)
(* is written twice.                                                              *)
EXTENDS Integers

CONSTANT None   \* no answer yet

VARIABLES
    done,       \* what has been written: a set of rows with a thing and its version
    owner,      \* the keys that stand for a command, with it and the row that proves it
    answer      \* the last answer given

vars == <<done, owner, answer>>

\* Rows that are new write no version of a thing that was written before.
Fresh(new) == \A n \in new, d \in done \cup new :
                  n.thing = d.thing /\ n.version = d.version => n = d

\* The row writes the version that follows the one the author of the command saw.
Answers(row, command) == /\ row.thing = command.target
                         /\ row.version = command.expected + 1

Init == /\ Fresh(done)
        /\ owner = {}
        /\ answer = None

\* The key of the answer stands for the command of the answer from now on.
Bind == /\ \A o \in owner : o.key # answer'.key
        /\ owner' = owner \cup {answer'}

\* A command is performed: its rows and its key are written in one step.
Perform == /\ done \subseteq done'
           /\ Fresh(done' \ done)
           /\ answer'.proof \in done' \ done
           /\ \E row \in done' \ done : Answers(row, answer'.intent)
           /\ Bind

\* A command that was performed under another key is recognised.
Join == /\ answer'.proof \in done
        /\ Answers(answer'.proof, answer'.intent)
        /\ Bind
        /\ UNCHANGED done

\* A key that was used is answered as it was.
Repeat == answer' \in owner /\ UNCHANGED <<done, owner>>

\* The system writes of its own accord.
Maintain == /\ done \subseteq done'
            /\ Fresh(done' \ done)
            /\ UNCHANGED <<owner, answer>>

Next == Maintain \/ Perform \/ Join \/ Repeat

Spec == Init /\ [][Next]_vars
=============================================================================
