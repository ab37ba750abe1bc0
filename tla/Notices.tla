------------------------------- MODULE Notices --------------------------------
(***************************************************************************)
(* The alert manager: alerts of one title and level are sent once in a      *)
(* window, and each channel delivers with a thread per alert, for which it   *)
(* has a slot in an interval.  A thread takes the slot under a lock and posts *)
(* after it released it, as late as it is scheduled (engine/alert.py).      *)
(***************************************************************************)
EXTENDS Naturals, Sequences, FiniteSets, SequencesExt, Subsequences

CONSTANTS
  Title,       \* level and title of an alert: what is deduplicated
  Channel,     \* channels that are configured
  PostInterval,    \* min_interval_sec
  Window,      \* dedup_window_sec
  MaxAlertTime,\* bound: time
  MaxAlerts    \* bound: calls of send_alert

ASSUME AlertsAssumption ==
  /\ PostInterval \in Nat /\ Window \in Nat /\ MaxAlertTime \in Nat /\ MaxAlerts \in Nat

VARIABLES
  time,
  dedup,      \* _dedup_cache: time of the last alert sent of each title, or Never
  history,    \* _history, with the time of each
  delivering, \* threads: pairs of a channel and the index of an alert
  lastSent,   \* _last_sent, or Never
  posting,    \* threads that have a slot and did not post: channel, alert, time of the slot
  posts,      \* posts, those that fail too: channel, alert, time of the slot, time
  alertsMade

alertVars == <<time, dedup, history, delivering, lastSent, posting, posts, alertsMade>>

\* Before every window and interval: the clock is the time of day
Never == 0
Start == 1 + IF PostInterval > Window THEN PostInterval ELSE Window

AlertsInit ==
  /\ time = Start /\ dedup = [t \in Title |-> Never] /\ history = <<>> /\ delivering = {}
  /\ lastSent = [c \in Channel |-> Never] /\ posting = {} /\ posts = {} /\ alertsMade = 0

AlertTime ==
  /\ time < Start + MaxAlertTime /\ time' = time + 1
  /\ UNCHANGED <<dedup, history, delivering, lastSent, posting, posts, alertsMade>>

Suppressed(t) == time - dedup[t] < Window

\* send_alert and, for each firing alert of a webhook, handle_alertmanager_webhook
SendAlert(t) ==
  /\ alertsMade < MaxAlerts /\ alertsMade' = alertsMade + 1
  /\ IF Suppressed(t)
     THEN UNCHANGED <<dedup, history, delivering>>
     ELSE /\ dedup' = [dedup EXCEPT ![t] = time]
          /\ history' = Append(history, [title |-> t, at |-> time])
          /\ delivering' = delivering \cup (Channel \X {Len(history')})
  /\ UNCHANGED <<time, lastSent, posting, posts>>

\* Variant: a post is not asked for the time of the one before.
SlotAlways(c) == TRUE

\* _deliver, under the lock: is it time for another post to the channel?
SlotFree(c) == time - lastSent[c] >= PostInterval

\* Variant: an alert that is kept back takes the slot too.
SlotTakenAnyway(c, post) == [lastSent EXCEPT ![c] = time]

SlotTaken(c, post) == IF post THEN [lastSent EXCEPT ![c] = time] ELSE lastSent

Deliver(c, i) ==
  /\ <<c, i>> \in delivering /\ delivering' = delivering \ {<<c, i>>}
  /\ lastSent' = SlotTaken(c, SlotFree(c))
  /\ posting' = IF SlotFree(c) THEN posting \cup {<<c, i, time>>} ELSE posting
  /\ UNCHANGED <<time, dedup, history, posts, alertsMade>>

\* _send_slack and the others, after the lock is released; what they raise is printed.
Post(c, i, at) ==
  /\ <<c, i, at>> \in posting /\ posting' = posting \ {<<c, i, at>>}
  /\ posts' = posts \cup {<<c, i, at, time>>}
  /\ UNCHANGED <<time, dedup, history, delivering, lastSent, alertsMade>>

AlertsNext ==
  \/ AlertTime \/ \E t \in Title : SendAlert(t)
  \/ \E c \in Channel, i \in DOMAIN history : Deliver(c, i)
  \/ \E thread \in posting : Post(thread[1], thread[2], thread[3])

-----------------------------------------------------------------------------
\* Properties

\* Times and threads keep their types.
AlertsTypeOK ==
  /\ \A t \in Title : dedup[t] \in {Never} \cup Start..time
  /\ delivering \subseteq Channel \X DOMAIN history
  /\ \A c \in Channel : lastSent[c] \in {Never} \cup Start..time

\* The slots that were taken: channel, alert and time
SlotOf(post) == <<post[1], post[2], post[3]>>
Slots == posting \cup {SlotOf(a) : a \in posts}

Apart(t, u) == t >= u + PostInterval \/ u >= t + PostInterval

SlotsSpaced ==
  \A a, b \in Slots : a # b /\ a[1] = b[1] =>
    a[3] - b[3] >= PostInterval \/ b[3] - a[3] >= PostInterval

\* "Rate-limited delivery": however the threads of several alerts are scheduled, each post
\* has a slot of its own, the slots of a channel are an interval apart, and a post comes
\* that long after the slots before its own.  Two posts may still come together: a thread
\* that is late with the post of its slot makes one next to a later one.
PostsSpaced ==
  /\ SlotsSpaced
  /\ \A a, b \in posts : a # b /\ a[1] = b[1] =>
       a[4] - b[3] >= PostInterval \/ b[4] - a[3] >= PostInterval

\* An alert is kept back only because another one has the slot: for a channel that was
\* given an alert, a thread has had a slot since, or less than an interval before, and has
\* posted or is about to (what it posts may fail, and the slot stays taken).
ChannelHeard ==
  \A i \in DOMAIN history, c \in Channel :
    \/ <<c, i>> \in delivering
    \/ \E a \in Slots :
         a[1] = c /\ (a[3] >= history[i].at \/ a[3] + PostInterval > history[i].at)

-----------------------------------------------------------------------------
(* The lifecycle hooks of one state and one hook type (engine/hooks.py). The  *)
(* engine triggers them while handlers, and whatever runs while a handler     *)
(* awaits, register and remove hooks: the loop over the handlers walks a list *)
(* that changes under it. A registration extends that list; a removal and a   *)
(* clear put another list, or none, in its place and leave the one being      *)
(* walked alone.                                                              *)

CONSTANTS
  HookHandler,      \* the handlers
  Coroutine,        \* those that are coroutine functions
  MaxHookOps        \* bound: registrations, removals and clears
ASSUME HooksAssumption == Coroutine \subseteq HookHandler /\ MaxHookOps \in Nat

VARIABLES
  listed,     \* the list in the registry
  walk,       \* the trigger under way
  hookOps     \* registrations, removals and clears so far

hooksVars == <<listed, walk, hookOps>>

\* own: the list walked, once it is no longer the one in the registry;
\* began: the handlers listed when the trigger began; heard: those called.
NoWalk == [on |-> FALSE, sync |-> FALSE, same |-> TRUE, own |-> <<>>, at |-> 1,
           began |-> <<>>, heard |-> <<>>]

HooksInit == listed = <<>> /\ walk = NoWalk /\ hookOps = 0

\* The list of handlers and the trigger that walks it keep their types.
HooksTypeOK ==
  /\ listed \in Seq(HookHandler) /\ hookOps \in 0..MaxHookOps
  /\ walk.on \in BOOLEAN /\ walk.sync \in BOOLEAN /\ walk.same \in BOOLEAN
  /\ walk.own \in Seq(HookHandler) /\ walk.at \in Nat \ {0}
  /\ walk.began \in Seq(HookHandler) /\ walk.heard \in Seq(HookHandler)
-----------------------------------------------------------------------------
Walked == IF walk.same THEN listed ELSE walk.own
HookCounted == hookOps < MaxHookOps /\ hookOps' = hookOps + 1

\* The trigger under way keeps the list it has.
Detached == IF walk.on /\ walk.same THEN [walk EXCEPT !.same = FALSE, !.own = listed]
                                    ELSE walk

RegisterHook(h) == HookCounted /\ listed' = Append(listed, h) /\ UNCHANGED walk

\* Variant: the handler is taken out of the list itself.
RemovesInPlace(h) == listed' = OnlyIn(listed, HookHandler \ {h}) /\ UNCHANGED walk

\* unregister builds a list without the handler.
Removes(h) == listed' = OnlyIn(listed, HookHandler \ {h}) /\ walk' = Detached

UnregisterHook(h) == h \in Range(listed) /\ HookCounted /\ Removes(h)

ClearHooks == listed # <<>> /\ HookCounted /\ listed' = <<>> /\ walk' = Detached

\* trigger and trigger_sync, which passes over the coroutine functions. A
\* handler that raises is logged and the loop goes on.
Begin(sync) ==
  /\ ~walk.on /\ listed # <<>>
  /\ walk' = [NoWalk EXCEPT !.on = TRUE, !.sync = sync, !.began = listed]
  /\ UNCHANGED <<listed, hookOps>>
Trigger == Begin(FALSE)
TriggerSync == Begin(TRUE)

Skipped(h) == walk.sync /\ h \in Coroutine
Asked == {h \in HookHandler : ~Skipped(h)}

CallHandler ==
  /\ walk.on /\ walk.at <= Len(Walked)
  /\ walk' = [walk EXCEPT !.at = @ + 1,
                          !.heard = IF Skipped(Walked[walk.at]) THEN @
                                    ELSE Append(@, Walked[walk.at])]
  /\ UNCHANGED <<listed, hookOps>>

TriggerReturns ==
  /\ walk.on /\ walk.at > Len(Walked)
  /\ walk' = NoWalk /\ UNCHANGED <<listed, hookOps>>

HooksNext ==
  \/ \E h \in HookHandler : RegisterHook(h) \/ UnregisterHook(h)
  \/ ClearHooks \/ Trigger \/ TriggerSync \/ CallHandler \/ TriggerReturns
-----------------------------------------------------------------------------
(* "Errors in one handler don't affect others", nor do registrations and      *)
(* removals made while the handlers run: when a trigger returns, the handlers *)
(* listed when it began have been called, each once for each registration, in *)
(* the order of registration (those added meanwhile come after them).         *)
EveryoneHeard ==
  walk.on /\ walk.at > Len(Walked)
    => IsPrefix(OnlyIn(walk.began, Asked), walk.heard)
===============================================================================
