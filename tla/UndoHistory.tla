----------------------------- MODULE UndoHistory -----------------------------
(***************************************************************************)
(* What the reviser of games promises (creation/revise.py): the versions   *)
(* made from one request form a stack of settings.  Making the game or     *)
(* changing it puts a setting on the stack, undoing takes the last one     *)
(* off, and the first one stays.  Who calls the game by a former title     *)
(* goes back from a version that had it.  A request that dies leaves the   *)
(* stack alone.                                                            *)
(***************************************************************************)
EXTENDS Naturals, Sequences

CONSTANTS Threads, Requests, Settings, Title, None, Back

VARIABLES
  history,  \* request -> the settings that were asked for
  saved,    \* request -> the stacks there have been, one for each version
  asked     \* what each thread was asked to do, and what an undo leads to

vars == <<history, saved, asked>>

Nothing == [request |-> None, what |-> None, to |-> <<>>]

Last(stack) == stack[Len(stack)]
Init ==
  /\ history = [r \in Requests |-> <<>>]
  /\ saved = [r \in Requests |-> {}]
  /\ asked = [t \in Threads |-> Nothing]

Ask(t, r, what, to) ==
  /\ asked' = [asked EXCEPT ![t] = [request |-> r, what |-> what, to |-> to]]
  /\ UNCHANGED <<history, saved>>

Push(t, r, setting) == Ask(t, r, setting, <<>>)

(* The stack as it is, or as it was when a title was in use that is not    *)
(* the present one.                                                        *)
Pop(t, r, stack) ==
  /\ Len(stack) > 1
  /\ stack # history[r] => Title[Last(stack)] # Title[Last(history[r])]
  /\ Ask(t, r, Back, SubSeq(stack, 1, Len(stack) - 1))

After(stack, a) == IF a.what = Back THEN a.to ELSE Append(stack, a.what)

Do(t) ==
  LET r == asked[t].request
      stack == After(history[r], asked[t])
  IN  /\ asked[t] # Nothing
      /\ asked' = [asked EXCEPT ![t] = Nothing]
      /\ history' = [history EXCEPT ![r] = stack]
      /\ saved' = [saved EXCEPT ![r] = @ \union {stack}]

Drop(t) ==
  /\ asked' = [asked EXCEPT ![t] = Nothing]
  /\ UNCHANGED <<history, saved>>

Next ==
  \E t \in Threads :
    \/ Do(t)
    \/ Drop(t)
    \/ /\ asked[t] = Nothing
       /\ \E r \in Requests : \/ \E s \in Settings : Push(t, r, s)
                              \/ \E stack \in saved[r] : Pop(t, r, stack)

Spec == Init /\ [][Next]_vars
=============================================================================
