-------------------------------- MODULE Toasts --------------------------------
(***************************************************************************)
(* The store of notifications of one browser tab (hooks/use-toast.ts).     *)
(* The handlers of the pages call toast(); AddToast is that call, for the  *)
(* actions of the modules that extend this one.  The store has two steps   *)
(* of its own: the user closes a toast, and the timer of a closed one      *)
(* fires.  genId counts modulo 2^53 - 1, which no bound here comes near.   *)
(***************************************************************************)
EXTENDS Naturals, Sequences

VARIABLES
  count,    \* the counter of genId
  memory,   \* memoryState.toasts
  timers    \* toastTimeouts: the ids with a pending removal

toastVars == <<count, memory, timers>>

TOAST_LIMIT == 1

\* Every variable has its type: TOAST_LIMIT toasts, with ids genId has given out.
ToastTypeOK ==
  /\ count \in Nat
  /\ memory \in Seq([id : 1..count, open : BOOLEAN]) /\ Len(memory) <= TOAST_LIMIT
  /\ timers \subseteq 1..count

InitToasts ==
  /\ count = 0
  /\ memory = <<>>
  /\ timers = {}

\* A page load starts a new store.
ResetToasts ==
  /\ count' = 0
  /\ memory' = <<>>
  /\ timers' = {}

MutGenId(n) == 1
GenId(n) == n + 1

\* ADD_TOAST: the newest first, TOAST_LIMIT kept; a timer of one pushed out runs on.
AddToast ==
  /\ count' = GenId(count)
  /\ memory' = SubSeq(<<[id |-> GenId(count), open |-> TRUE]>> \o memory, 1, TOAST_LIMIT)
  /\ UNCHANGED timers

\* onOpenChange(false) of a toast on screen: DISMISS_TOAST, and its removal is queued.
Dismiss ==
  \E i \in DOMAIN memory :
    /\ memory[i].open
    /\ timers' = timers \union {memory[i].id}
    /\ memory' = [memory EXCEPT ![i].open = FALSE]
    /\ UNCHANGED count

\* TOAST_REMOVE_DELAY passes: REMOVE_TOAST of the toast with that id, which may be
\* gone already.
RemoveToast ==
  \E id \in timers :
    /\ timers' = timers \ {id}
    /\ \/ \E i \in DOMAIN memory :
            /\ memory[i].id = id
            /\ memory' = SubSeq(memory, 1, i - 1) \o SubSeq(memory, i + 1, Len(memory))
       \/ /\ \A i \in DOMAIN memory : memory[i].id # id
          /\ UNCHANGED memory
    /\ UNCHANGED count

-----------------------------------------------------------------------------
(* A removal is queued for the toasts the user closed and for no other: a  *)
(* closed toast does not stay in the store for ever, and no timer takes an *)
(* open message off the screen, although newer toasts push older ones out  *)
(* while their timers run.                                                 *)
TimersMatchToasts ==
  \A i \in DOMAIN memory : memory[i].open <=> memory[i].id \notin timers
=============================================================================
