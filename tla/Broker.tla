------------------------------- MODULE Broker -------------------------------
(***************************************************************************)
(* The broker's event stream: goroutines change the call table and         *)
(* broadcast, every browser has a bounded channel that loses events when   *)
(* it is full, and the browser's call list is what it makes of the events  *)
(* it got.  A broadcast holds the read lock while it visits the            *)
(* subscribers; the table and the set of subscribers change under the      *)
(* write lock, which waits for it.                                         *)
(***************************************************************************)
EXTENDS Naturals, Sequences, FiniteSets

CONSTANTS Calls, Statuses, \* call ids and what a record can say of a live call
          Emitters,        \* goroutines of calls and requests
          Subs,            \* /api/events requests
          Clients, ClientOf, \* client ids and the one each request names
          Capacity,        \* of a subscriber's channel (32 in the code)
          MaxOps,          \* bound on changes of the table
          NoCall, NoClient

ASSUME BrokerAssumption ==
  /\ Capacity \in Nat \ {0} /\ MaxOps \in Nat /\ ClientOf \in [Subs -> Clients]
  /\ NoCall \notin Statuses /\ Emitters \cap Subs = {}

VARIABLES calls, history,  \* of the Broker
          sub,             \* subscribers: in the map or not, channel, browser
          job,             \* what each goroutine has yet to broadcast
          ops,             \* counter against the bound
          made, overlapped \* history: records made of each call; changes at the same time

vars == <<calls, history, sub, job, ops, made, overlapped>>

Threads == Emitters \cup Subs
Tables == [Calls -> Statuses \cup {NoCall}]
Empty == [c \in Calls |-> NoCall]
Fresh(state) == [state |-> state, ch |-> <<>>, view |-> Empty, missed |-> FALSE]
Idle == [plan |-> <<>>, ev |-> [type |-> "none"], todo |-> {}, holds |-> FALSE]

\* kinds of events: the whole list, one record, one ended call, a pairing code
ListEv(table) == [type |-> "call-list", calls |-> table]
StatusEv(c, st) == [type |-> "call-status", id |-> c, status |-> st]
EndedEv(c) == [type |-> "call-ended", id |-> c]
QREv(cl) == [type |-> "session-qr", to |-> cl]
Want == [type |-> "list-wanted"]

Events == [type : {"call-list"}, calls : Tables]
            \cup [type : {"call-status"}, id : Calls, status : Statuses]
            \cup [type : {"call-ended"}, id : Calls]
            \cup [type : {"session-qr"}, to : Clients \cup {NoClient}]
Subscribers == [state : {"new", "in", "out", "closed"}, ch : Seq(Events), view : Tables, missed : BOOLEAN]
Jobs == [plan : Seq(Events \cup {Want}), ev : Events \cup {[type |-> "none"]}, todo : SUBSET Subs,
         holds : BOOLEAN]

\* Table, channels, browsers and goroutines are of their types, and a channel never exceeds
\* its capacity.
TypeOK ==
  /\ calls \in Tables /\ history \in Seq(Calls)
  /\ sub \in [Subs -> Subscribers] /\ \A s \in Subs : Len(sub[s].ch) <= Capacity
  /\ job \in [Threads -> Jobs]
  /\ ops \in 0 .. MaxOps /\ made \in [Calls -> 0 .. MaxOps] /\ overlapped \in BOOLEAN

Init ==
  /\ calls = Empty /\ history = <<>>
  /\ sub = [s \in Subs |-> Fresh("new")]
  /\ job = [t \in Threads |-> Idle]
  /\ ops = 0 /\ made = [c \in Calls |-> 0] /\ overlapped = FALSE

\* nobody reads under the lock
Lock == \A t \in Threads : ~job[t].holds
Plan(t, p) == job' = [job EXCEPT ![t] = [Idle EXCEPT !.plan = p]]
Change(t) == /\ job[t] = Idle /\ Lock
             /\ ops < MaxOps /\ ops' = ops + 1
             /\ overlapped' = (overlapped \/ \E u \in Threads : job[u] # Idle)

-----------------------------------------------------------------------------
\* Changes of the table, and what each broadcasts after the unlock

upsertCall(t) ==
  /\ Change(t)
  /\ \E c \in Calls, st \in Statuses :
       /\ calls' = [calls EXCEPT ![c] = st]
       /\ made' = [made EXCEPT ![c] = IF calls[c] = NoCall THEN @ + 1 ELSE @]
       /\ Plan(t, <<Want, StatusEv(c, st)>>)
  /\ UNCHANGED <<history, sub>>

\* without a record it does nothing
endCall(t) ==
  /\ Change(t)
  /\ \E c \in Calls :
       /\ calls[c] # NoCall /\ calls' = [calls EXCEPT ![c] = NoCall]
       /\ history' = Append(history, c)
       /\ Plan(t, <<EndedEv(c), Want>>)
  /\ UNCHANGED <<sub, made>>

\* a pairing shows its code to the client that asked for it, when it named itself
emitSessionQR(t) ==
  /\ job[t] = Idle /\ t \in Emitters /\ ops < MaxOps /\ ops' = ops + 1
  /\ \E cl \in Clients \cup {NoClient} : Plan(t, <<QREv(cl)>>)
  /\ UNCHANGED <<calls, history, sub, made, overlapped>>

-----------------------------------------------------------------------------
\* Broadcasting

\* broadcastCallList reads the table under the read lock and broadcasts after releasing it
readList(t) ==
  /\ job[t].plan # <<>> /\ ~job[t].holds /\ Head(job[t].plan) = Want
  /\ job' = [job EXCEPT ![t].plan = <<ListEv(calls)>> \o Tail(@)]
  /\ UNCHANGED <<calls, history, sub, ops, made, overlapped>>

Subscribed == {s \in Subs : sub[s].state = "in"}

\* emitTo for a code, broadcast for everything else and for a code without a client
recipients(ev) ==
  IF ev.type = "session-qr" /\ ev.to # NoClient
  THEN {s \in Subscribed : ClientOf[s] = ev.to} ELSE Subscribed

broadcast(t) ==
  /\ job[t].plan # <<>> /\ ~job[t].holds /\ Head(job[t].plan) # Want
  /\ job' = [job EXCEPT ![t] = [plan |-> Tail(job[t].plan), ev |-> Head(job[t].plan),
                                todo |-> recipients(Head(job[t].plan)), holds |-> TRUE]]
  /\ UNCHANGED <<calls, history, sub, ops, made, overlapped>>

\* select with a default: a full channel loses the event
offer(s, ev) == IF Len(s.ch) < Capacity THEN [s EXCEPT !.ch = Append(@, ev)]
                ELSE [s EXCEPT !.missed = TRUE]

sendBlocking(t) ==
  /\ job[t].holds /\ \A s \in job[t].todo : Len(sub[s].ch) < Capacity
  /\ sub' = [s \in Subs |-> IF s \in job[t].todo THEN offer(sub[s], job[t].ev) ELSE sub[s]]
  /\ job' = [job EXCEPT ![t] = [Idle EXCEPT !.plan = job[t].plan]]
  /\ UNCHANGED <<calls, history, ops, made, overlapped>>

\* the loop over the subscribers, and the unlock; what another broadcast does to one
\* subscriber in between is independent of the rest of the loop
send(t) ==
  /\ job[t].holds
  /\ sub' = [s \in Subs |-> IF s \in job[t].todo THEN offer(sub[s], job[t].ev) ELSE sub[s]]
  /\ job' = [job EXCEPT ![t] = [Idle EXCEPT !.plan = job[t].plan]]
  /\ UNCHANGED <<calls, history, ops, made, overlapped>>

-----------------------------------------------------------------------------
\* serveSSE

subscribeLate(s) ==
  /\ sub[s].state = "new" /\ Lock
  /\ sub' = [sub EXCEPT ![s].state = "in"]
  /\ UNCHANGED <<calls, history, job, ops, made, overlapped>>

\* subscribe first, then the list: nothing that changes in between is lost
serveSSE(s) ==
  /\ sub[s].state = "new" /\ Lock
  /\ sub' = [sub EXCEPT ![s].state = "in"]
  /\ Plan(s, <<Want>>)
  /\ UNCHANGED <<calls, history, ops, made, overlapped>>

\* the browser's store (client/src/stores/calls.ts)
apply(view, ev) ==
  CASE ev.type = "call-list"   -> ev.calls
    [] ev.type = "call-status" -> [view EXCEPT ![ev.id] = IF @ = NoCall THEN NoCall ELSE ev.status]
    [] ev.type = "call-ended"  -> [view EXCEPT ![ev.id] = NoCall]
    [] OTHER                   -> view

\* the loop writes an event to the response and the browser handles it
deliver(s) ==
  /\ sub[s].state = "in" /\ job[s] = Idle /\ sub[s].ch # <<>>
  /\ sub' = [sub EXCEPT ![s].ch = Tail(@), ![s].view = apply(@, Head(sub[s].ch))]
  /\ UNCHANGED <<calls, history, job, ops, made, overlapped>>

unsubscribeClosing(s) ==
  /\ sub[s].state = "in" /\ job[s] = Idle
  /\ sub' = [sub EXCEPT ![s] = Fresh("closed")]
  /\ UNCHANGED <<calls, history, job, ops, made, overlapped>>

\* the request ends: out of the map, then the channel is closed
unsubscribe(s) ==
  /\ sub[s].state = "in" /\ job[s] = Idle /\ Lock
  /\ sub' = [sub EXCEPT ![s] = Fresh("out")]
  /\ UNCHANGED <<calls, history, job, ops, made, overlapped>>

closeChannel(s) ==
  /\ sub[s].state = "out"
  /\ sub' = [sub EXCEPT ![s] = Fresh("closed")]
  /\ UNCHANGED <<calls, history, job, ops, made, overlapped>>

-----------------------------------------------------------------------------
Step(t) == readList(t) \/ broadcast(t) \/ send(t)

Next ==
  \/ \E t \in Emitters : upsertCall(t) \/ endCall(t) \/ emitSessionQR(t)
  \/ \E t \in Threads : Step(t)
  \/ \E s \in Subs : serveSSE(s) \/ deliver(s) \/ unsubscribe(s) \/ closeChannel(s)

Spec == Init /\ [][Next]_vars

-----------------------------------------------------------------------------
\* Properties

\* No goroutine is about to send on a closed channel (that would panic): unsubscribe takes
\* the subscriber out under the write lock before it closes the channel.
NoSendOnClosed == \A t \in Threads : \A s \in job[t].todo : sub[s].state # "closed"

\* When the table changes one goroutine at a time, a browser that lost no event and has read
\* everything shows exactly the calls there are, whenever it connected.
ViewCurrent ==
  \A s \in Subs :
    (/\ sub[s].state = "in" /\ sub[s].ch = <<>> /\ ~sub[s].missed
     /\ ~overlapped /\ \A t \in Threads : job[t] = Idle)
      => sub[s].view = calls

\* Every record that was ever made is live or in the history, and in the history once: whoever
\* and however many end a call, and also when a late upsertCall makes a record anew.
HistoryOnce ==
  \A c \in Calls : Cardinality({i \in DOMAIN history : history[i] = c})
                     = made[c] - (IF calls[c] = NoCall THEN 0 ELSE 1)

\* The code of a pairing a client asked for is only ever in the channels of that client.
QRPrivate ==
  \A s \in Subs, i \in 1 .. Capacity :
    i <= Len(sub[s].ch) /\ sub[s].ch[i].type = "session-qr"
      => sub[s].ch[i].to \in {ClientOf[s], NoClient}

\* The streams are sound: channels stay within their capacity, none is closed under a sender or
\* carries another client's code, and the history accounts for every record.
StreamsSound == TypeOK /\ NoSendOnClosed /\ QRPrivate /\ HistoryOnce

\* A goroutine with something left to broadcast can always take its next step, although no
\* browser reads and others broadcast too: a call never hangs on a stalled event stream.
EmitterNeverBlocked == \A t \in Threads : job[t] # Idle => ENABLED Step(t)

-----------------------------------------------------------------------------
\* The inductive invariant

\* A goroutine visits subscribers only under the lock, they are in the map as long, and a code
\* visits only its client's; a request that is not subscribed has nothing to do and nothing to read.
VisitsSubscribed ==
  /\ \A t \in Threads :
       /\ ~job[t].holds => job[t].todo = {}
       /\ job[t].holds => job[t].ev \in Events
       /\ \A s \in job[t].todo :
            /\ sub[s].state = "in"
            /\ job[t].ev.type = "session-qr" => job[t].ev.to \in {ClientOf[s], NoClient}
  /\ \A s \in Subs : sub[s].state # "in" => job[s] = Idle /\ sub[s].ch = <<>>
  /\ \A s \in Subs : sub[s].state = "new" => sub[s].view = Empty

\* Every record made was a change of the table.
MadeBounded == \A c \in Calls : made[c] <= ops

\* What an event says of its call, or of all of them, is what the table says.
Agrees(ev) ==
  /\ ev.type = "call-list" => ev.calls = calls
  /\ ev.type = "call-status" => calls[ev.id] = ev.status
  /\ ev.type = "call-ended" => calls[ev.id] = NoCall

\* A goroutine has yet to send the list to s.
ListComing(s) ==
  \E t \in Threads :
    \/ \E i \in DOMAIN job[t].plan : job[t].plan[i].type \in {"list-wanted", "call-list"}
    \/ job[t].ev.type = "call-list" /\ s \in job[t].todo

\* The views a browser goes through while it reads its channel; the last is the table, or a
\* list that makes it so is on its way.
Converges(s) ==
  \E views \in [0 .. Len(sub[s].ch) -> Tables] :
    /\ views[0] = sub[s].view
    /\ \A i \in 1 .. Len(sub[s].ch) : views[i] = apply(views[i - 1], sub[s].ch[i])
    /\ views[Len(sub[s].ch)] = calls \/ ListComing(s)

\* All a goroutine has yet to send agrees with the table.
SaysTheTable(t) ==
  /\ \A i \in DOMAIN job[t].plan : Agrees(job[t].plan[i])
  /\ job[t].holds => Agrees(job[t].ev)

StreamsConverge ==
  ~overlapped =>
    /\ \A t \in Threads : SaysTheTable(t)
    /\ \A s \in Subs : sub[s].state = "in" /\ ~sub[s].missed => Converges(s)

BrokerInv == TypeOK /\ VisitsSubscribed /\ QRPrivate /\ MadeBounded /\ HistoryOnce /\ StreamsConverge
=============================================================================
