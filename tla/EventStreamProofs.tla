--------------------------- MODULE EventStreamProofs ----------------------------
(*************************************************************************)
(* Theorems about the event stream and the view it feeds: the view has no *)
(* holes of the stream's making, and once the stream has closed on an ended *)
(* run its last reload shows everything.                                 *)
(*                                                                       *)
(* A hole or a stale answer comes of what is still on its way.  InOrder says *)
(* of every event that those below it come before it or were seen; Closes *)
(* that after `done` a reload was asked for when the run had ended, so that *)
(* all it reads is final (IsFresh), however many reloads are on their way *)
(* with it.  Of the run watched the argument needs only that its steps grow *)
(* and stop at its end (RunGoesOn), which is Admission's.                *)
(*************************************************************************)
EXTENDS AdmissionProofs

-----------------------------------------------------------------------------
(* What is watched.                                                          *)

Words == {"none", "live", "over"}
Numbers == 0..(scene.steps + 1)
Fetch ==
  [at : {"run", "steps", "approvals", "answered", "over"}, status : Words, steps : Numbers, pending : BOOLEAN]
View ==
  [status : Words, steps : SUBSET Numbers, pending : BOOLEAN, from : 0..Len(fetches), dropped : SUBSET Numbers]
Stream ==
  [at : {"off", "steps", "status", "approvals", "closed", "lost"}, sent : Numbers, told : Statuses \cup {"none"}]
(* The generator, the events, the reloads and the view; before anybody       *)
(* watches there are none, and then there is a run to watch.                 *)
Streams ==
  /\ stream \in Stream /\ wire \in Seq(Event) /\ fetches \in Seq(Fetch) /\ view \in View
  /\ Len(fetches) <= MaxFetches
  /\ stream.at = "off" =>
       fetches = <<>> /\ wire = <<>> /\ view.status = "none" /\ ~view.pending /\ stream.sent = 0
  /\ stream.at # "off" => Exists /\ stream.sent <= Run.steps

(* The events before the i-th one of ev show step n, if the view v has not   *)
(* seen it.                                                                  *)
Known(v, ev, n, i) ==
  \/ n \in v.steps \cup v.dropped
  \/ \E j \in 1..(i - 1) : ev[j].kind = "step" /\ ev[j].n = n
(* Every step event comes after those below it, and all that was sent was    *)
(* seen or is on its way, unless the connection broke.                       *)
InOrder(v, ev, s) ==
  /\ \A i \in 1..Len(ev) : ev[i].kind = "step" => \A n \in 1..(ev[i].n - 1) : Known(v, ev, n, i)
  /\ s.at # "lost" => \A n \in 1..s.sent : Known(v, ev, n, Len(ev) + 1)
NoHoles(v) == \A n \in v.steps : 1..n \subseteq v.steps \cup v.dropped

(* What an answer to a reload that was asked for after the run's end has.    *)
IsFresh(a) ==
  /\ a.at \in {"steps", "approvals", "answered"} => a.status = "over"
  /\ a.at \in {"approvals", "answered"} => a.steps = Run.steps
  /\ a.at = "answered" => ~a.pending
LastIsFresh ==
  LET n == Len(fetches) IN n # 0 /\ IsFresh(fetches[n]) /\ (view.from = n => Complete)
(* A stream that was told the end has closed or was lost; if it closed, the  *)
(* run has ended and `done` is the last event, or was answered by a reload.  *)
Closes ==
  /\ stream.told \in Ended => stream.at \in {"closed", "lost"}
  /\ stream.at = "closed" /\ stream.told \in Ended =>
       /\ Run.status \in Ended
       /\ wire # <<>> => wire[Len(wire)].kind = "done"
       /\ wire = <<>> => LastIsFresh

(* A run watched goes on: no fewer steps, and no more after its end.         *)
RunGoesOn ==
  /\ scene' = scene
  /\ Exists => /\ Exists' /\ Run'.steps \in Nat /\ Run.steps \in Nat /\ Run.steps <= Run'.steps
               /\ Run.status \in Statuses /\ Run'.status \in Statuses
               /\ Run.status \in Ended => Run'.status \in Ended /\ Run'.steps = Run.steps

(* Admission lets the run watched go on, which is all the stream needs.      *)
LEMMA RunsGoOn ==
  ASSUME AInv, AInv', RunsMove, [ANext]_avars
  PROVE  RunGoesOn
  <1>1. /\ \A r \in DOMAIN runs : runs[r] \in RunRecord
        /\ \A r \in DOMAIN runs' : runs'[r] \in RunRecord'
    <2>1. runs \in Seq(RunRecord) /\ runs' \in Seq(RunRecord')
      BY DEF AInv, RunsTyped
    <2> HIDE DEF RunRecord
    <2> QED BY <2>1
  <1>2. scene' = scene
    BY ScenesStay
  <1>3. \A r \in DOMAIN runs : r \in DOMAIN runs' /\ (runs'[r] = runs[r] \/ Kept(runs[r], runs'[r]))
    <2>1. CASE runs' = runs
      BY <2>1
    <2>2. CASE \E q \in Requests : Insert(q)
      BY <2>2, InsertTypes
    <2>3. CASE \E r \in DOMAIN runs : \E x \in RunRecord : Written(r, x)
      BY <2>3 DEF Written
    <2> QED BY <2>1, <2>2, <2>3 DEF RunsMove
  <1>4. ASSUME Exists PROVE /\ Run \in RunRecord /\ Run' \in RunRecord' /\ Exists'
                            /\ Run' = Run \/ Kept(Run, Run')
    BY <1>1, <1>3, <1>4 DEF Exists, Run, Watched
  <1>5. scene.steps \in Nat
    BY SceneTypes DEF AInv, DoorTyped
  <1>6. ASSUME Exists PROVE /\ Run.steps \in Nat /\ Run'.steps \in Nat
                            /\ Run.status \in Statuses /\ Run'.status \in Statuses
    BY <1>2, <1>4, <1>5, <1>6 DEF RunRecord
  <1>7. ASSUME Exists PROVE Run.steps <= Run'.steps
    BY <1>4, <1>6, <1>7 DEF Kept
  <1>8. ASSUME Exists, Run.status \in Ended PROVE Run'.status \in Ended /\ Run'.steps = Run.steps
    BY <1>4, <1>8 DEF Kept
  <1> HIDE DEF Run, Exists
  <1> QED BY <1>2, <1>4, <1>6, <1>7, <1>8 DEF RunGoesOn

-----------------------------------------------------------------------------
(* Steps that are known. *)

(* An event known to be seen stays so while the view loses nothing.          *)
LEMMA KnownStays ==
  ASSUME NEW v, NEW x, NEW ev, NEW n, NEW i, Known(v, ev, n, i),
         v.steps \cup v.dropped \subseteq x.steps \cup x.dropped
  PROVE  Known(x, ev, n, i)
  BY DEF Known

(* Events added at the end come after the others.                            *)
LEMMA KnownBefore ==
  ASSUME NEW S, NEW ev \in Seq(S), NEW more \in Seq(S), NEW i \in 1..(Len(ev) + 1), NEW n, NEW v,
         Known(v, ev, n, i)
  PROVE  Known(v, ev \o more, n, i)
  <1>1. \A j \in 1..(i - 1) : (ev \o more)[j] = ev[j]
    BY ConcatProperties
  <1> QED BY <1>1 DEF Known

(* The first event leaves for the view.                                      *)
LEMMA KnownArrives ==
  ASSUME NEW S, NEW ev \in Seq(S), ev # <<>>, NEW v, NEW x, NEW n, NEW i \in 1..Len(ev),
         v.steps \cup v.dropped \subseteq x.steps \cup x.dropped,
         ev[1].kind = "step" => ev[1].n \in x.steps \cup x.dropped,
         Known(v, ev, n, i + 1)
  PROVE  Known(x, Tail(ev), n, i)
  <1>1. Len(Tail(ev)) = Len(ev) - 1 /\ \A j \in 1..(Len(ev) - 1) : Tail(ev)[j] = ev[j + 1]
    BY HeadTailProperties
  <1>2. CASE n \in v.steps \cup v.dropped
    BY <1>2 DEF Known
  <1>3. CASE \E j \in 1..i : ev[j].kind = "step" /\ ev[j].n = n
    <2>1. PICK j \in 1..i : ev[j].kind = "step" /\ ev[j].n = n
      BY <1>3
    <2>2. CASE j = 1
      BY <2>1, <2>2 DEF Known
    <2>3. CASE j # 1
      <3>1. j - 1 \in 1..(i - 1) /\ j - 1 \in 1..(Len(ev) - 1) /\ (j - 1) + 1 = j
        BY <2>3
      <3>2. Tail(ev)[j - 1] = ev[j]
        BY <1>1, <3>1
      <3> QED BY <2>1, <3>1, <3>2 DEF Known
    <2> QED BY <2>2, <2>3
  <1> QED BY <1>2, <1>3 DEF Known

(* Sending what is no step, or the steps that are next, keeps the order.     *)
LEMMA OrderSentOthers ==
  ASSUME NEW S, NEW ev \in Seq(S), NEW more \in Seq(S), NEW v, NEW s, NEW t, InOrder(v, ev, s),
         \A i \in 1..Len(more) : more[i].kind # "step",
         t.sent = s.sent, s.at # "lost", s.sent \in Nat
  PROVE  InOrder(v, ev \o more, t)
  <1>1. /\ Len(ev \o more) = Len(ev) + Len(more) /\ Len(ev) \in Nat /\ Len(more) \in Nat
        /\ \A i \in 1..Len(ev) : (ev \o more)[i] = ev[i]
        /\ \A i \in 1..Len(more) : (ev \o more)[Len(ev) + i] = more[i]
    BY ConcatProperties
  <1>2. ASSUME NEW i \in 1..Len(ev \o more), (ev \o more)[i].kind = "step", NEW n \in 1..((ev \o more)[i].n - 1)
        PROVE  Known(v, ev \o more, n, i)
    <2>1. i \in 1..Len(ev)
      <3>1. CASE i > Len(ev)
        <4>1. i - Len(ev) \in 1..Len(more) /\ Len(ev) + (i - Len(ev)) = i
          BY <1>1, <3>1
        <4>2. (ev \o more)[i] = more[i - Len(ev)]
          BY <1>1, <4>1
        <4> QED BY <1>2, <4>1, <4>2
      <3> QED BY <1>1, <3>1
    <2>2. Known(v, ev, n, i)
      BY <1>1, <1>2, <2>1 DEF InOrder
    <2>3. i \in 1..(Len(ev) + 1)
      BY <1>1, <2>1
    <2> QED BY <2>2, <2>3, KnownBefore
  <1>3. ASSUME NEW n \in 1..t.sent PROVE Known(v, ev \o more, n, Len(ev \o more) + 1)
    <2>1. Known(v, ev, n, Len(ev) + 1)
      BY <1>3 DEF InOrder
    <2>2. Known(v, ev \o more, n, Len(ev) + 1)
      BY <1>1, <2>1, KnownBefore
    <2> QED BY <1>1, <2>2 DEF Known
  <1> QED BY <1>2, <1>3 DEF InOrder

(* New steps sent in their order keep the events in order.                   *)
LEMMA OrderSentSteps ==
  ASSUME NEW S, NEW ev \in Seq(S), NEW more \in Seq(S), NEW v, NEW s, NEW t, InOrder(v, ev, s),
         s.at # "lost", s.sent \in Nat, t.sent \in Nat, s.sent <= t.sent,
         Len(more) = t.sent - s.sent,
         \A i \in 1..Len(more) : more[i].kind = "step" /\ more[i].n = s.sent + i
  PROVE  InOrder(v, ev \o more, t)
  <1>1. /\ Len(ev \o more) = Len(ev) + Len(more) /\ Len(ev) \in Nat /\ Len(more) \in Nat
        /\ \A i \in 1..Len(ev) : (ev \o more)[i] = ev[i]
        /\ \A i \in 1..Len(more) : (ev \o more)[Len(ev) + i] = more[i]
    BY ConcatProperties
  <1>2. ASSUME NEW k \in 0..Len(more), NEW n \in 1..(s.sent + k)
        PROVE  Known(v, ev \o more, n, Len(ev) + k + 1)
    <2>1. CASE n <= s.sent
      <3>1. Known(v, ev, n, Len(ev) + 1)
        BY <1>2, <2>1 DEF InOrder
      <3>2. Known(v, ev \o more, n, Len(ev) + 1)
        BY <1>1, <3>1, KnownBefore
      <3> QED BY <1>1, <3>2 DEF Known
    <2>2. CASE n > s.sent
      <3>1. PICK i : i = n - s.sent
        OBVIOUS
      <3>2. i \in 1..Len(more) /\ i <= k /\ s.sent + i = n
        BY <1>1, <1>2, <2>2, <3>1
      <3>3. (ev \o more)[Len(ev) + i].kind = "step" /\ (ev \o more)[Len(ev) + i].n = n
        BY <1>1, <3>2
      <3>4. Len(ev) + i \in 1..((Len(ev) + k + 1) - 1)
        BY <1>1, <1>2, <3>2
      <3> QED BY <3>3, <3>4 DEF Known
    <2> QED BY <2>1, <2>2
  <1>3. ASSUME NEW i \in 1..Len(ev \o more), (ev \o more)[i].kind = "step", NEW n \in 1..((ev \o more)[i].n - 1)
        PROVE  Known(v, ev \o more, n, i)
    <2>1. CASE i <= Len(ev)
      <3>1. i \in 1..Len(ev) /\ i \in 1..(Len(ev) + 1)
        BY <1>1, <2>1
      <3>2. Known(v, ev, n, i)
        BY <1>1, <1>3, <3>1 DEF InOrder
      <3> QED BY <3>1, <3>2, KnownBefore
    <2>2. CASE i > Len(ev)
      <3>1. PICK k : k = i - Len(ev)
        OBVIOUS
      <3>2. k \in 1..Len(more) /\ i = Len(ev) + k
        BY <1>1, <2>2, <3>1
      <3>3. (ev \o more)[i].n = s.sent + k
        BY <1>1, <3>2
      <3>4. k - 1 \in 0..Len(more) /\ n \in 1..(s.sent + (k - 1)) /\ Len(ev) + (k - 1) + 1 = i
        BY <1>1, <1>3, <3>2, <3>3
      <3> QED BY <1>2, <3>4
    <2> QED BY <1>1, <2>1, <2>2
  <1>4. ASSUME NEW n \in 1..t.sent PROVE Known(v, ev \o more, n, Len(ev \o more) + 1)
    <2>1. Len(more) \in 0..Len(more) /\ t.sent = s.sent + Len(more)
      BY <1>1
    <2> QED BY <1>1, <1>2, <1>4, <2>1
  <1> QED BY <1>3, <1>4 DEF InOrder

(* The view takes the first event: nothing is lost, and no hole comes.       *)
LEMMA OrderReceived ==
  ASSUME NEW S, NEW ev \in Seq(S), ev # <<>>, NEW v, NEW x, NEW s, InOrder(v, ev, s),
         ev[1].n \in Nat, s.sent \in Nat, NoHoles(v), x.dropped = v.dropped,
         IF ev[1].kind = "step" THEN x.steps = v.steps \cup {ev[1].n} ELSE x.steps = v.steps
  PROVE  InOrder(x, Tail(ev), s) /\ NoHoles(x)
  <1>1. /\ Len(Tail(ev)) = Len(ev) - 1 /\ Len(ev) \in Nat /\ Len(ev) > 0
        /\ \A j \in 1..(Len(ev) - 1) : Tail(ev)[j] = ev[j + 1]
    BY HeadTailProperties, EmptySeq
  <1>2. ASSUME NEW i \in 1..Len(Tail(ev)), Tail(ev)[i].kind = "step", NEW n \in 1..(Tail(ev)[i].n - 1)
        PROVE  Known(x, Tail(ev), n, i)
    <2>1. i + 1 \in 1..Len(ev) /\ Tail(ev)[i] = ev[i + 1] /\ i \in 1..Len(ev)
      BY <1>1
    <2>2. Known(v, ev, n, i + 1)
      BY <1>2, <2>1 DEF InOrder
    <2> QED BY <2>1, <2>2, KnownArrives
  <1>3. ASSUME s.at # "lost", NEW n \in 1..s.sent PROVE Known(x, Tail(ev), n, Len(Tail(ev)) + 1)
    <2>1. Known(v, ev, n, Len(ev) + 1)
      BY <1>3 DEF InOrder
    <2>2. Len(ev) \in 1..Len(ev) /\ Len(Tail(ev)) + 1 = Len(ev)
      BY <1>1
    <2>3. Known(x, Tail(ev), n, Len(ev))
      BY <2>1, <2>2, KnownArrives
    <2> QED BY <2>2, <2>3
  <1>4. NoHoles(x)
    <2>1. CASE ev[1].kind # "step"
      BY <2>1 DEF NoHoles
    <2>2. CASE ev[1].kind = "step"
      <3>1. ASSUME NEW m \in 1..ev[1].n PROVE m \in x.steps \cup x.dropped
        <4>1. CASE m = ev[1].n
          BY <2>2, <4>1
        <4>2. CASE m # ev[1].n
          <5>1. m \in 1..(ev[1].n - 1) /\ 1 \in 1..Len(ev)
            BY <1>1, <4>2
          <5>2. Known(v, ev, m, 1)
            BY <2>2, <5>1 DEF InOrder
          <5>3. m \in v.steps \cup v.dropped
            BY <5>2 DEF Known
          <5> QED BY <2>2, <5>3
        <4> QED BY <4>1, <4>2
      <3> QED BY <2>2, <3>1 DEF NoHoles
    <2> QED BY <2>1, <2>2
  <1> QED BY <1>2, <1>3, <1>4 DEF InOrder

SInv == Streams /\ InOrder(view, wire, stream) /\ NoHoles(view) /\ Closes

(* The types of a stream do not change, and a run left alone is the same.    *)
LEMMA TypesStay ==
  ASSUME scene' = scene
  PROVE  Numbers' = Numbers /\ Event' = Event /\ Fetch' = Fetch /\ Stream' = Stream
         /\ (Len(fetches') = Len(fetches) => View' = View)
  BY DEF Numbers, Event, Fetch, Stream, View, Statuses, Words

(* The run watched changes with Admission's variables only.                  *)
LEMMA RunStays ==
  ASSUME UNCHANGED avars
  PROVE  scene' = scene /\ Run' = Run /\ Exists' = Exists
  BY DEF avars, Run, Exists, Watched

(* The types of stream, wire, fetches and run, as the lemmas below use them. *)
LEMMA StreamTypes ==
  ASSUME AInv, Streams
  PROVE  /\ scene.steps \in Nat /\ Numbers \subseteq Nat /\ stream.sent \in Numbers
         /\ stream.sent \in Nat
         /\ Exists => /\ Run \in RunRecord /\ Run.steps \in Numbers /\ Run.status \in Statuses
                      /\ Run.steps \in Nat
         /\ Len(fetches) \in Nat /\ Len(wire) \in Nat /\ DOMAIN fetches = 1..Len(fetches)
         /\ DOMAIN wire = 1..Len(wire)
         /\ \A f \in DOMAIN fetches : fetches[f] \in Fetch
         /\ \A i \in DOMAIN wire : wire[i] \in Event
  <1>1. scene.steps \in Nat
    BY SceneTypes DEF AInv, DoorTyped
  <1>2. Exists => Run \in RunRecord
    <2>1. \A r \in DOMAIN runs : runs[r] \in RunRecord
      BY BillTypes
    <2> QED BY <2>1 DEF Exists, Run, Watched
  <1>3. Exists => Run.steps \in Numbers /\ Run.status \in Statuses /\ Run.steps \in Nat
    <2> HIDE DEF Run, Exists
    <2> QED BY <1>1, <1>2 DEF RunRecord, Numbers
  <1>4. fetches \in Seq(Fetch) /\ wire \in Seq(Event) /\ stream \in Stream
    BY DEF Streams
  <1>5. stream.sent \in Numbers /\ stream.sent \in Nat
    BY <1>1, <1>4 DEF Stream, Numbers
  <1>6. /\ Len(fetches) \in Nat /\ Len(wire) \in Nat /\ DOMAIN fetches = 1..Len(fetches)
        /\ DOMAIN wire = 1..Len(wire)
        /\ \A f \in DOMAIN fetches : fetches[f] \in Fetch
        /\ \A i \in DOMAIN wire : wire[i] \in Event
    <2> HIDE DEF Fetch, Event
    <2> QED BY <1>4
  <1> QED BY <1>1, <1>2, <1>3, <1>5, <1>6 DEF Numbers

(* What the stream sends are events.                                         *)
LEMMA EventTypes ==
  ASSUME scene.steps \in Nat
  PROVE  /\ \A n \in Numbers : Step(n) \in Event /\ Step(n).kind = "step" /\ Step(n).n = n
         /\ \A s \in Statuses : StatusIs(s) \in Event /\ StatusIs(s).kind = "status"
         /\ \A p \in BOOLEAN : Approvals(p) \in Event /\ Approvals(p).kind = "approval"
         /\ Done \in Event /\ Done.kind = "done"
  BY DEF Event, Step, StatusIs, Approvals, Done, Shown, Numbers

(* One reload more.                                                          *)
LEMMA AskTypes ==
  ASSUME AInv, Streams, Ask, Len(fetches) < MaxFetches
  PROVE  /\ fetches' \in Seq(Fetch) /\ Len(fetches') <= MaxFetches
         /\ Len(fetches') = Len(fetches) + 1 /\ fetches'[Len(fetches) + 1] = Asked
         /\ Len(fetches') \in Nat /\ Len(fetches) <= Len(fetches')
  <1>1. Asked \in Fetch
    <2>1. 0 \in Numbers
      BY StreamTypes DEF Numbers
    <2> QED BY <2>1 DEF Asked, Fetch, Words
  <1>2. fetches \in Seq(Fetch) /\ Len(fetches) \in Nat /\ MaxFetches \in Nat
    BY StreamTypes, ReloadsAssumption DEF Streams
  <1> HIDE DEF Fetch, Asked
  <1>3. /\ fetches' \in Seq(Fetch) /\ Len(fetches') = Len(fetches) + 1 /\ fetches'[Len(fetches) + 1] = Asked
    BY <1>1, <1>2, AppendProperties DEF Ask
  <1> QED BY <1>2, <1>3

(* An ended run and its view stay what they are.                             *)
LEMMA FreshStays ==
  ASSUME RunGoesOn, Exists, Run.status \in Ended, LastIsFresh, view' = view,
         \/ fetches' = fetches
         \/ Len(fetches') = Len(fetches) + 1 /\ fetches'[Len(fetches) + 1] = Asked,
         Len(fetches) \in Nat, view.from \in 0..Len(fetches)
  PROVE  LastIsFresh'
  <1>1. Run'.steps = Run.steps
    BY DEF RunGoesOn
  <1> HIDE DEF Run, Exists
  <1>2. CASE fetches' = fetches
    BY <1>1, <1>2 DEF LastIsFresh, IsFresh, Complete
  <1>3. CASE Len(fetches') = Len(fetches) + 1 /\ fetches'[Len(fetches) + 1] = Asked
    <2>1. view'.from # Len(fetches')
      BY <1>3
    <2>2. IsFresh(fetches[Len(fetches)])'
      BY <1>3 DEF IsFresh, Asked
    <2>3. Len(fetches') # 0
      BY <1>3
    <2> QED BY <2>1, <2>2, <2>3 DEF LastIsFresh
  <1> QED BY <1>2, <1>3

(* The run moves under the stream.                                           *)
LEMMA AdmissionStreams ==
  ASSUME AInv, AInv', RunsMove, ANext, UNCHANGED <<stream, wire, fetches, view>>, SInv
  PROVE  SInv'
  <1>1. RunGoesOn
    BY RunsGoOn
  <1>2. scene' = scene
    BY <1>1 DEF RunGoesOn
  <1>3. Numbers' = Numbers /\ Event' = Event /\ Fetch' = Fetch /\ Stream' = Stream /\ View' = View
    BY <1>2, TypesStay
  <1>4. stream.sent \in Nat /\ Numbers \subseteq Nat /\ Len(fetches) \in Nat /\ view.from \in 0..Len(fetches)
    <2>1. view.from \in 0..Len(fetches)
      BY DEF SInv, Streams, View
    <2> QED BY <2>1, StreamTypes DEF SInv
  <1>5. stream.at # "off" => Exists' /\ stream.sent <= Run'.steps
    <2> HIDE DEF Run, Exists
    <2>1. stream.at # "off" => Exists /\ stream.sent <= Run.steps
      BY DEF SInv, Streams
    <2> QED BY <1>1, <1>4, <2>1 DEF RunGoesOn
  <1>6. Streams'
    <2> HIDE DEF Run, Exists, Numbers, Event, Fetch, Stream, View
    <2> QED BY <1>3, <1>5 DEF SInv, Streams
  <1>7. Closes'
    <2>1. ASSUME stream.at = "closed", stream.told \in Ended
          PROVE  /\ Run'.status \in Ended
                 /\ wire # <<>> => wire[Len(wire)].kind = "done"
                 /\ wire = <<>> => LastIsFresh'
      <3>1. /\ Run.status \in Ended /\ Exists
            /\ wire # <<>> => wire[Len(wire)].kind = "done"
            /\ wire = <<>> => LastIsFresh
        BY <2>1 DEF SInv, Closes, Streams
      <3>2. Run'.status \in Ended
        <4> HIDE DEF Run, Exists
        <4> QED BY <1>1, <3>1 DEF RunGoesOn
      <3>3. wire = <<>> => LastIsFresh'
        BY <1>1, <1>4, <3>1, FreshStays
      <3> QED BY <3>1, <3>2, <3>3
    <2> HIDE DEF Run, LastIsFresh
    <2> QED BY <2>1 DEF SInv, Closes
  <1>8. InOrder(view', wire', stream') /\ NoHoles(view')
    BY DEF SInv
  <1>9. InOrder(view, wire, stream)' /\ NoHoles(view)'
    BY <1>8 DEF InOrder, NoHoles, Known
  <1> QED BY <1>6, <1>7, <1>9 DEF SInv

(* The server sends what is no step; the end it tells of is the run's, and   *)
(* comes with `done`.                                                        *)
LEMMA SentOthers ==
  ASSUME AInv, SInv, UNCHANGED <<avars, fetches, view>>, NEW more \in Seq(Event),
         wire' = wire \o more, \A i \in 1..Len(more) : more[i].kind # "step",
         stream.at \in {"steps", "status", "approvals"},
         stream' \in Stream, stream'.sent = stream.sent, stream'.at # "off",
         stream'.told \in Ended =>
           stream'.at = "closed" /\ Run.status \in Ended /\ more # <<>> /\ more[Len(more)].kind = "done"
  PROVE  SInv'
  <1>1. scene' = scene /\ Run' = Run /\ Exists' = Exists
    BY RunStays
  <1>2. Numbers' = Numbers /\ Event' = Event /\ Fetch' = Fetch /\ Stream' = Stream /\ View' = View
    BY <1>1, TypesStay
  <1>3. stream.sent \in Nat /\ wire \in Seq(Event)
    BY StreamTypes DEF SInv, Streams
  <1> HIDE DEF Run, Exists, Numbers, Event, Fetch, Stream, View
  <1>4. Streams'
    <2>1. wire \o more \in Seq(Event)
      BY <1>3, ConcatProperties
    <2> QED BY <1>1, <1>2, <2>1 DEF SInv, Streams
  <1>5. InOrder(view, wire \o more, stream')
    BY <1>3, OrderSentOthers DEF SInv
  <1>6. InOrder(view, wire, stream)' /\ NoHoles(view)'
    BY <1>5 DEF InOrder, NoHoles, Known, SInv
  <1>7. Closes'
    <2>1. ASSUME stream'.told \in Ended
          PROVE  wire' # <<>> /\ wire'[Len(wire')].kind = "done"
      <3>1. /\ Len(wire \o more) = Len(wire) + Len(more) /\ Len(wire) \in Nat /\ Len(more) \in Nat
            /\ \A i \in 1..Len(more) : (wire \o more)[Len(wire) + i] = more[i]
        BY <1>3, ConcatProperties
      <3>2. Len(more) # 0
        BY <2>1, EmptySeq
      <3>3. Len(more) \in 1..Len(more)
        BY <3>1, <3>2
      <3>4. (wire \o more)[Len(wire \o more)].kind = "done"
        BY <2>1, <3>1, <3>3
      <3>5. Len(wire \o more) # 0
        BY <3>1, <3>2
      <3> QED BY <3>4, <3>5
    <2> QED BY <1>1, <2>1 DEF Closes
  <1> QED BY <1>4, <1>6, <1>7 DEF SInv

(* A poll of the steps keeps the promises of the stream.                     *)
LEMMA PollStepsStreams ==
  ASSUME AInv, SInv, PollSteps
  PROVE  SInv'
  <1>1. /\ UNCHANGED <<avars, fetches, view>> /\ stream.at = "steps"
        /\ wire' = wire \o NewSteps /\ stream' = [stream EXCEPT !.at = "status", !.sent = Run.steps]
    BY DEF PollSteps, Sends
  <1>2. scene' = scene /\ Run' = Run /\ Exists' = Exists
    BY <1>1, RunStays
  <1>3. Numbers' = Numbers /\ Event' = Event /\ Fetch' = Fetch /\ Stream' = Stream /\ View' = View
    BY <1>1, <1>2, TypesStay
  <1>4. /\ stream.sent \in Nat /\ wire \in Seq(Event) /\ Exists /\ Run.steps \in Numbers /\ stream.sent <= Run.steps
        /\ Numbers \subseteq Nat /\ Run.steps \in Nat /\ scene.steps \in Nat
    BY <1>1, StreamTypes DEF SInv, Streams
  <1>5. stream' \in Stream /\ stream'.at = "status" /\ stream'.sent = Run.steps /\ stream'.told = stream.told
    <2>1. PICK y : y = [stream EXCEPT !.at = "status"]
      OBVIOUS
    <2>2. y \in Stream /\ y.at = "status" /\ y.told = stream.told
      BY <2>1 DEF Stream, SInv, Streams
    <2>3. stream' = [y EXCEPT !.sent = Run.steps]
      BY <1>1, <2>1 DEF SInv, Streams, Stream
    <2> HIDE DEF Run, Numbers
    <2> QED BY <1>4, <2>2, <2>3 DEF Stream
  <1>6. PICK more : more = NewSteps
    OBVIOUS
  <1>7. /\ more \in Seq(Event) /\ Len(more) = Run.steps - stream.sent
        /\ \A i \in 1..Len(more) : more[i].kind = "step" /\ more[i].n = stream.sent + i
    <2> HIDE DEF Run
    <2>1. Run.steps - stream.sent \in Nat
      BY <1>4
    <2>2. ASSUME NEW i \in 1..(Run.steps - stream.sent)
          PROVE  Step(stream.sent + i) \in Event /\ Step(stream.sent + i).kind = "step" /\ Step(stream.sent + i).n = stream.sent + i
      <3>1. stream.sent + i \in Numbers
        BY <1>4, <2>1, <2>2 DEF Numbers
      <3> QED BY <1>4, <3>1, EventTypes
    <2>3. more = [i \in 1..(Run.steps - stream.sent) |-> Step(stream.sent + i)]
      BY <1>6 DEF NewSteps
    <2> HIDE DEF Event, Step
    <2> QED BY <2>1, <2>2, <2>3
  <1> HIDE DEF Run, Exists, Numbers, Event, Fetch, Stream, View
  <1>8. Streams'
    <2>1. wire \o more \in Seq(Event)
      BY <1>4, <1>7, ConcatProperties
    <2>2. Run.steps <= Run.steps
      BY <1>4
    <2> QED BY <1>1, <1>2, <1>3, <1>4, <1>5, <1>6, <2>1, <2>2 DEF SInv, Streams
  <1>9. InOrder(view, wire \o more, stream')
    <2>1. Run.steps \in Nat
      BY <1>4
    <2> QED BY <1>1, <1>4, <1>5, <1>7, <2>1, OrderSentSteps DEF SInv
  <1>10. InOrder(view, wire, stream)' /\ NoHoles(view)'
    <2>1. view' = view /\ wire' = wire \o more
      BY <1>1, <1>6
    <2>2. InOrder(view', wire', stream')
      BY <1>9, <2>1
    <2>3. NoHoles(view')
      BY <2>1 DEF SInv
    <2> QED BY <2>2, <2>3 DEF InOrder, NoHoles, Known
  <1>11. Closes'
    <2>1. stream.told \notin Ended
      BY <1>1 DEF SInv, Closes
    <2> QED BY <1>5, <2>1 DEF Closes
  <1> QED BY <1>8, <1>10, <1>11 DEF SInv

(* A poll of the status, with the `done` it may send, keeps them.            *)
LEMMA PollStatusStreams ==
  ASSUME AInv, SInv, PollStatus
  PROVE  SInv'
  <1>1. PICK s, more : /\ s = Run.status /\ more = News(s) \o IF Closing(s) THEN <<Done>> ELSE <<>>
    OBVIOUS
  <1>2. /\ UNCHANGED <<avars, fetches, view>> /\ stream.at = "status" /\ wire' = wire \o more
        /\ stream' = [stream EXCEPT !.told = s, !.at = IF s = "awaiting_approval" THEN "approvals"
                                                       ELSE IF Closing(s) THEN "closed" ELSE "steps"]
    BY <1>1 DEF PollStatus, Sends
  <1>3. s \in Statuses /\ scene.steps \in Nat
    BY <1>1, <1>2, StreamTypes DEF SInv, Streams
  <1>4. /\ stream' \in Stream /\ stream'.sent = stream.sent /\ stream'.told = s
        /\ stream'.at = IF s = "awaiting_approval" THEN "approvals" ELSE IF Closing(s) THEN "closed" ELSE "steps"
    <2>1. PICK a : /\ a = IF s = "awaiting_approval" THEN "approvals" ELSE IF Closing(s) THEN "closed" ELSE "steps"
                   /\ a \in {"approvals", "closed", "steps"}
      OBVIOUS
    <2>2. PICK y : y = [stream EXCEPT !.told = s]
      OBVIOUS
    <2>3. y \in Stream /\ y.told = s /\ y.sent = stream.sent
      BY <1>3, <2>2 DEF Stream, SInv, Streams
    <2>4. stream' = [y EXCEPT !.at = a]
      BY <1>2, <2>1, <2>2
    <2>5. stream' \in Stream /\ stream'.sent = y.sent /\ stream'.told = y.told /\ stream'.at = a
      BY <2>1, <2>3, <2>4 DEF Stream
    <2> QED BY <2>1, <2>3, <2>5
  <1>5. PICK e \in Event, d \in Event : e = StatusIs(s) /\ e.kind = "status" /\ d = Done /\ d.kind = "done"
    BY <1>3, EventTypes
  <1>6. PICK told \in Seq(Event), end \in Seq(Event) :
          /\ more = told \o end
          /\ \A i \in 1..Len(told) : told[i].kind # "step"
          /\ \A i \in 1..Len(end) : end[i].kind # "step"
          /\ Closing(s) => Len(end) = 1 /\ end[1].kind = "done"
    <2> HIDE DEF Event
    <2>1. \A x \in Event : <<x>> \in Seq(Event) /\ Len(<<x>>) = 1 /\ <<x>>[1] = x
      OBVIOUS
    <2>2. <<>> \in Seq(Event) /\ Len(<<>>) = 0
      OBVIOUS
    <2>3. PICK told, end : /\ told = News(s) /\ end = IF Closing(s) THEN <<Done>> ELSE <<>>
      OBVIOUS
    <2>4. told \in Seq(Event) /\ \A i \in 1..Len(told) : told[i].kind # "step"
      <3>1. CASE s # stream.told
        <4>1. told = <<e>> /\ e.kind # "step"
          BY <1>5, <2>3, <3>1 DEF News
        <4>2. \A i \in 1..1 : i = 1
          OBVIOUS
        <4> QED BY <2>1, <4>1, <4>2
      <3>2. CASE s = stream.told
        <4>1. told = <<>>
          BY <2>3, <3>2 DEF News
        <4> QED BY <2>2, <4>1
      <3> QED BY <3>1, <3>2
    <2>5. /\ end \in Seq(Event) /\ \A i \in 1..Len(end) : end[i].kind # "step"
          /\ Closing(s) => Len(end) = 1 /\ end[1].kind = "done"
      <3>1. CASE Closing(s)
        <4>1. end = <<d>> /\ d.kind = "done" /\ d.kind # "step"
          BY <1>5, <2>3, <3>1
        <4>2. \A i \in 1..1 : i = 1
          OBVIOUS
        <4> QED BY <2>1, <4>1, <4>2
      <3>2. CASE ~Closing(s)
        <4>1. end = <<>>
          BY <2>3, <3>2
        <4> QED BY <2>2, <3>2, <4>1
      <3> QED BY <3>1, <3>2
    <2>6. more = told \o end
      BY <1>1, <2>3
    <2> QED BY <2>4, <2>5, <2>6
  <1>7. /\ Len(more) = Len(told) + Len(end) /\ Len(told) \in Nat /\ Len(end) \in Nat /\ more \in Seq(Event)
        /\ \A i \in 1..Len(told) : more[i] = told[i]
        /\ \A i \in 1..Len(end) : more[Len(told) + i] = end[i]
    BY <1>6, ConcatProperties
  <1>8. \A i \in 1..Len(more) : more[i].kind # "step"
    <2>1. ASSUME NEW i \in 1..Len(more), i > Len(told) PROVE more[i].kind # "step"
      <3>1. i - Len(told) \in 1..Len(end) /\ Len(told) + (i - Len(told)) = i
        BY <1>7, <2>1
      <3> QED BY <1>6, <1>7, <3>1
    <2>2. ASSUME NEW i \in 1..Len(more), i <= Len(told) PROVE more[i].kind # "step"
      <3>1. i \in 1..Len(told)
        BY <1>7, <2>2
      <3> QED BY <1>6, <1>7, <3>1
    <2> QED BY <1>7, <2>1, <2>2
  <1>9. ASSUME s \in Ended
        PROVE  stream'.at = "closed" /\ more # <<>> /\ more[Len(more)].kind = "done"
    <2>1. Closing(s) /\ s # "awaiting_approval"
      BY <1>9 DEF Closing, Ended
    <2>2. Len(end) = 1 /\ end[1].kind = "done"
      BY <1>6, <2>1
    <2>3. Len(more) = Len(told) + 1 /\ Len(told) \in Nat /\ 1 \in 1..Len(end)
      BY <1>7, <2>2
    <2>4. more[Len(told) + 1] = end[1]
      BY <1>7, <2>3
    <2>5. more # <<>>
      BY <2>3, EmptySeq
    <2> QED BY <1>4, <2>1, <2>2, <2>3, <2>4, <2>5
  <1>10. stream'.at # "off"
    BY <1>4
  <1> QED BY <1>1, <1>2, <1>4, <1>7, <1>8, <1>9, <1>10, SentOthers

(* A poll of the approvals and the end of the stream's time keep them.       *)
LEMMA OthersStreams ==
  ASSUME AInv, SInv, PollApprovals \/ StreamTimesOut
  PROVE  SInv'
  <1>1. /\ UNCHANGED <<avars, fetches, view>> /\ stream.at \in {"approvals", "steps"}
        /\ stream' = [stream EXCEPT !.at = "steps"] \/ stream' = [stream EXCEPT !.at = "closed"]
    BY DEF PollApprovals, StreamTimesOut
  <1>2. PICK e \in Event : e.kind # "step" /\ wire' = wire \o <<e>>
    <2>1. scene.steps \in Nat
      BY StreamTypes DEF SInv
    <2>2. (Run.status = "awaiting_approval") \in BOOLEAN
      OBVIOUS
    <2> HIDE DEF Run
    <2> QED BY <2>1, <2>2, EventTypes DEF PollApprovals, StreamTimesOut, Sends
  <1>3. stream' \in Stream /\ stream'.at \in {"steps", "closed"} /\ stream'.sent = stream.sent /\ stream'.told = stream.told
    BY <1>1 DEF SInv, Streams, Stream
  <1>4. stream.told \notin Ended
    BY <1>1 DEF SInv, Closes
  <1>5. PICK more : more = <<e>>
    OBVIOUS
  <1>6. more \in Seq(Event) /\ \A i \in 1..Len(more) : more[i].kind # "step"
    <2> HIDE DEF Event
    <2> QED BY <1>2, <1>5
  <1> QED BY <1>1, <1>2, <1>3, <1>4, <1>5, <1>6, SentOthers

(* A connection that breaks loses the wire, and closes nothing.              *)
LEMMA BreaksStreams ==
  ASSUME AInv, SInv, ConnectionBreaks
  PROVE  SInv'
  <1>1. /\ UNCHANGED <<avars, fetches, view>> /\ wire' = <<>> /\ stream' = [stream EXCEPT !.at = "lost"] /\ stream.at # "off"
    BY DEF ConnectionBreaks
  <1>2. scene' = scene /\ Run' = Run /\ Exists' = Exists
    BY <1>1, RunStays
  <1>3. Numbers' = Numbers /\ Event' = Event /\ Fetch' = Fetch /\ Stream' = Stream /\ View' = View
    BY <1>1, <1>2, TypesStay
  <1>4. stream' \in Stream /\ stream'.at = "lost" /\ stream'.sent = stream.sent /\ stream'.told = stream.told
    BY <1>1 DEF SInv, Streams, Stream
  <1> HIDE DEF Run, Exists, Numbers, Event, Fetch, Stream, View
  <1>5. Streams'
    BY <1>1, <1>2, <1>3, <1>4 DEF SInv, Streams
  <1>6. InOrder(view, wire, stream)' /\ NoHoles(view)'
    BY <1>1, <1>4 DEF InOrder, NoHoles, SInv
  <1>7. Closes'
    BY <1>4 DEF Closes
  <1> QED BY <1>5, <1>6, <1>7 DEF SInv

(* The browser takes an event, and asks for the run again after `done`.      *)
LEMMA ReceiveStreams ==
  ASSUME AInv, SInv, Receive
  PROVE  SInv'
  <1>1. /\ UNCHANGED <<avars, stream>> /\ wire # <<>> /\ wire' = Tail(wire)
    BY DEF Receive
  <1>2. scene' = scene /\ Run' = Run /\ Exists' = Exists
    BY <1>1, RunStays
  <1>3. Numbers' = Numbers /\ Event' = Event /\ Fetch' = Fetch /\ Stream' = Stream
    BY <1>2, TypesStay
  <1>4. /\ wire \in Seq(Event) /\ stream.sent \in Nat /\ Len(fetches) \in Nat /\ fetches \in Seq(Fetch)
        /\ Numbers \subseteq Nat /\ scene.steps \in Nat /\ stream.at # "off" /\ Exists
        /\ view \in View
    BY <1>1, StreamTypes DEF SInv, Streams
  <1>5. /\ Tail(wire) \in Seq(Event) /\ Len(Tail(wire)) = Len(wire) - 1 /\ Len(wire) \in Nat /\ Len(wire) > 0
        /\ wire[1] \in Event /\ Head(wire) = wire[1]
        /\ \A j \in 1..(Len(wire) - 1) : Tail(wire)[j] = wire[j + 1]
    <2> HIDE DEF Event
    <2>1. wire[1] \in Event /\ Head(wire) = wire[1]
      BY <1>1, <1>4
    <2> QED BY <1>1, <1>4, <2>1, HeadTailProperties, EmptySeq
  <1>6. wire[1].n \in Numbers /\ wire[1].n \in Nat /\ wire[1].pending \in BOOLEAN /\ wire[1].status \in Words
    BY <1>4, <1>5 DEF Event, Numbers, Words
  <1>7. \/ /\ wire[1].kind = "step" /\ fetches' = fetches /\ view' = [view EXCEPT !.steps = @ \cup {wire[1].n}]
        \/ /\ wire[1].kind = "status" /\ fetches' = fetches
           /\ view' = [view EXCEPT !.status = IF @ = "none" THEN @ ELSE wire[1].status]
        \/ wire[1].kind = "approval" /\ fetches' = fetches /\ view' = [view EXCEPT !.pending = wire[1].pending]
        \/ wire[1].kind = "done" /\ AfterDone /\ view' = view
    BY <1>5 DEF Receive
  <1>8. /\ view'.dropped = view.dropped /\ view'.from = view.from
        /\ IF wire[1].kind = "step" THEN view'.steps = view.steps \cup {wire[1].n} ELSE view'.steps = view.steps
        /\ view' \in View
    BY <1>4, <1>6, <1>7 DEF View
  <1>9. InOrder(view', Tail(wire), stream) /\ NoHoles(view')
    <2> HIDE DEF Event, View, Numbers
    <2> QED BY <1>1, <1>4, <1>6, <1>8, OrderReceived DEF SInv
  <1>10. InOrder(view, wire, stream)' /\ NoHoles(view)'
    <2>1. InOrder(view', wire', stream')
      BY <1>1, <1>9
    <2> QED BY <1>9, <2>1 DEF InOrder, NoHoles, Known
  <1>11. /\ fetches' \in Seq(Fetch) /\ Len(fetches') <= MaxFetches /\ Len(fetches') \in Nat /\ Len(fetches) <= Len(fetches')
         /\ wire[1].kind = "done" => Len(fetches') = Len(fetches) + 1 /\ fetches'[Len(fetches) + 1] = Asked
    <2>1. CASE fetches' = fetches /\ wire[1].kind # "done"
      BY <1>4, <2>1 DEF SInv, Streams
    <2>2. CASE AfterDone
      <3>1. Ask /\ Len(fetches) < MaxFetches /\ Streams
        BY <2>2 DEF AfterDone, SInv
      <3> QED BY <3>1, AskTypes
    <2> QED BY <1>7, <2>1, <2>2
  <1>12. View \subseteq View'
    <2>1. 0..Len(fetches) \subseteq 0..Len(fetches')
      BY <1>4, <1>11
    <2> QED BY <1>3, <2>1 DEF View, Words
  <1> HIDE DEF Run, Exists, Numbers, Event, Fetch, Stream, View
  <1>13. Streams'
    <2>1. Tail(wire) \in Seq(Event') /\ fetches' \in Seq(Fetch') /\ view' \in View'
      BY <1>3, <1>5, <1>8, <1>11, <1>12
    <2>2. stream' = stream
      BY <1>1
    <2>3. stream \in Stream /\ stream.sent <= Run.steps
      BY <1>4 DEF SInv, Streams
    <2> QED BY <1>1, <1>2, <1>3, <1>4, <1>11, <2>1, <2>2, <2>3 DEF Streams
  <1>14. Closes'
    <2>1. ASSUME stream.at = "closed", stream.told \in Ended
          PROVE  /\ Tail(wire) # <<>> => Tail(wire)[Len(Tail(wire))].kind = "done"
                 /\ Tail(wire) = <<>> => LastIsFresh'
                 /\ Run.status \in Ended
      <3>1. Run.status \in Ended /\ wire[Len(wire)].kind = "done"
        BY <1>1, <2>1 DEF SInv, Closes
      <3>2. ASSUME Tail(wire) # <<>> PROVE Tail(wire)[Len(Tail(wire))].kind = "done"
        <4>1. Len(Tail(wire)) # 0
          BY <1>5, <3>2, EmptySeq
        <4>2. Len(wire) - 1 \in 1..(Len(wire) - 1) /\ (Len(wire) - 1) + 1 = Len(wire)
          BY <1>5, <4>1
        <4>3. Tail(wire)[Len(wire) - 1] = wire[Len(wire)]
          BY <1>5, <4>2
        <4> QED BY <1>5, <3>1, <4>3
      <3>3. ASSUME Tail(wire) = <<>> PROVE LastIsFresh'
        <4>1. Len(wire) = 1
          <5>1. PICK n : n = Len(Tail(wire))
            OBVIOUS
          <5>2. Len(<<>>) = 0
            OBVIOUS
          <5>3. n = 0
            BY <3>3, <5>1, <5>2, Zenon
          <5>4. n = Len(wire) - 1
            BY <1>5, <5>1
          <5>5. Len(wire) \in Nat
            BY <1>5
          <5> QED BY <5>3, <5>4, <5>5
        <4>2. Len(fetches') = Len(fetches) + 1 /\ fetches'[Len(fetches) + 1] = Asked
          BY <1>11, <3>1, <4>1
        <4>3. view'.from # Len(fetches')
          BY <1>4, <1>8, <4>2 DEF View
        <4>4. IsFresh(fetches[Len(fetches)])'
          BY <4>2 DEF IsFresh, Asked
        <4>5. Len(fetches') # 0
          BY <1>4, <4>2
        <4> QED BY <4>3, <4>4, <4>5 DEF LastIsFresh
      <3> QED BY <3>1, <3>2, <3>3
    <2>2. stream' = stream /\ wire' = Tail(wire) /\ (stream.told \in Ended => stream.at \in {"closed", "lost"})
      BY <1>1 DEF SInv, Closes
    <2> HIDE DEF LastIsFresh
    <2> QED BY <1>2, <2>1, <2>2 DEF Closes
  <1> QED BY <1>10, <1>13, <1>14 DEF SInv

(* A user's decision moves the run, and asks for it again.                   *)
LEMMA UserStreams ==
  ASSUME AInv, AInv', RunsMove, [ANext]_avars, SInv, UserActs
  PROVE  SInv'
  <1>1. /\ UNCHANGED <<stream, wire, view>> /\ Exists /\ Ask /\ Len(fetches) < MaxFetches - 1
        /\ view.pending \/ view.status = "live"
    BY DEF UserActs
  <1>2. RunGoesOn
    BY RunsGoOn
  <1>3. scene' = scene
    BY <1>2 DEF RunGoesOn
  <1>4. Numbers' = Numbers /\ Event' = Event /\ Fetch' = Fetch /\ Stream' = Stream
    BY <1>3, TypesStay
  <1>5. /\ Len(fetches) \in Nat /\ view \in View /\ Streams /\ stream.at # "off"
        /\ stream.sent \in Nat /\ stream.sent <= Run.steps
    BY <1>1, StreamTypes DEF SInv, Streams
  <1>6. /\ fetches' \in Seq(Fetch) /\ Len(fetches') <= MaxFetches
        /\ Len(fetches') = Len(fetches) + 1 /\ fetches'[Len(fetches) + 1] = Asked
    <2>1. Len(fetches) < MaxFetches
      BY <1>1, <1>5, ReloadsAssumption
    <2> QED BY <1>1, <1>5, <2>1, AskTypes
  <1>7. View \subseteq View'
    <2>1. 0..Len(fetches) \subseteq 0..Len(fetches')
      BY <1>5, <1>6
    <2> QED BY <1>4, <2>1 DEF View, Words
  <1>8. Exists' /\ stream.sent <= Run'.steps
    <2> HIDE DEF Run, Exists
    <2> QED BY <1>1, <1>2, <1>5 DEF RunGoesOn
  <1>9. view.from \in 0..Len(fetches)
    BY <1>5 DEF View
  <1>10. Closes'
    <2>1. ASSUME stream.at = "closed", stream.told \in Ended
          PROVE  /\ Run'.status \in Ended
                 /\ wire # <<>> => wire[Len(wire)].kind = "done"
                 /\ wire = <<>> => LastIsFresh'
      <3>1. /\ Run.status \in Ended
            /\ wire # <<>> => wire[Len(wire)].kind = "done"
            /\ wire = <<>> => LastIsFresh
        BY <2>1 DEF SInv, Closes
      <3>2. Run'.status \in Ended
        <4> HIDE DEF Run, Exists
        <4> QED BY <1>1, <1>2, <3>1 DEF RunGoesOn
      <3>3. wire = <<>> => LastIsFresh'
        <4>1. view' = view
          BY <1>1
        <4> QED BY <1>1, <1>2, <1>5, <1>6, <1>9, <3>1, <4>1, FreshStays
      <3> QED BY <3>1, <3>2, <3>3
    <2> HIDE DEF Run, LastIsFresh
    <2> QED BY <1>1, <2>1 DEF SInv, Closes
  <1> HIDE DEF Run, Exists, Numbers, Event, Fetch, Stream, View
  <1>11. Streams'
    BY <1>1, <1>4, <1>5, <1>6, <1>7, <1>8 DEF Streams
  <1>12. InOrder(view, wire, stream)' /\ NoHoles(view)'
    BY <1>1 DEF InOrder, NoHoles, Known, SInv
  <1> QED BY <1>10, <1>11, <1>12 DEF SInv

(* The browser opens the run.                                                *)
LEMMA WatchStreams ==
  ASSUME AInv, SInv, Watch
  PROVE  SInv'
  <1>1. /\ UNCHANGED <<avars, wire, view>> /\ Exists /\ stream.at = "off" /\ Ask
        /\ stream' = [stream EXCEPT !.at = "steps"]
    BY DEF Watch
  <1>2. scene' = scene /\ Run' = Run /\ Exists' = Exists
    BY <1>1, RunStays
  <1>3. Numbers' = Numbers /\ Event' = Event /\ Fetch' = Fetch /\ Stream' = Stream
    BY <1>2, TypesStay
  <1>4. /\ Streams /\ fetches = <<>> /\ wire = <<>> /\ stream.sent = 0 /\ view \in View /\ stream.told \notin Ended
        /\ Len(fetches) = 0 /\ Run.steps \in Nat
    BY <1>1, StreamTypes DEF SInv, Streams, Closes
  <1>5. /\ fetches' \in Seq(Fetch) /\ Len(fetches') <= MaxFetches /\ Len(fetches') = 1
    <2>1. Len(fetches) < MaxFetches
      BY <1>4, ReloadsAssumption
    <2> QED BY <1>1, <1>4, <2>1, AskTypes
  <1>6. View \subseteq View'
    <2>1. 0..Len(fetches) \subseteq 0..Len(fetches')
      BY <1>4, <1>5
    <2> QED BY <1>3, <2>1 DEF View, Words
  <1>7. stream' \in Stream /\ stream'.at = "steps" /\ stream'.sent = stream.sent /\ stream'.told = stream.told
    BY <1>1, <1>4 DEF Streams, Stream
  <1> HIDE DEF Run, Exists, Numbers, Event, Fetch, Stream, View
  <1>8. Streams'
    BY <1>1, <1>2, <1>3, <1>4, <1>5, <1>6, <1>7 DEF Streams
  <1>9. InOrder(view, wire, stream)' /\ NoHoles(view)'
    <2>1. InOrder(view', wire', stream') /\ NoHoles(view')
      BY <1>1, <1>4, <1>7 DEF InOrder, SInv
    <2> QED BY <2>1 DEF InOrder, NoHoles, Known
  <1>10. Closes'
    BY <1>4, <1>7 DEF Closes
  <1> QED BY <1>8, <1>9, <1>10 DEF SInv

(* A reload goes on, or is over: what it is after was asked for after the    *)
(* end stays true of an answer.                                              *)
LEMMA FetchStreams ==
  ASSUME AInv, SInv, UNCHANGED <<avars, stream, wire>>, NEW f \in DOMAIN fetches, NEW x \in Fetch,
         fetches' = [fetches EXCEPT ![f] = x],
         view' \in View, view.steps \cup view.dropped \subseteq view'.steps \cup view'.dropped, NoHoles(view'),
         Exists /\ Run.status \in Ended /\ IsFresh(fetches[f]) => IsFresh(x),
         \/ view' = view
         \/ view'.from = f /\ (Exists /\ Run.status \in Ended /\ IsFresh(fetches[f]) => Complete')
  PROVE  SInv'
  <1>1. scene' = scene /\ Run' = Run /\ Exists' = Exists
    BY RunStays
  <1>2. /\ Len(fetches) \in Nat /\ fetches \in Seq(Fetch) /\ DOMAIN fetches = 1..Len(fetches)
        /\ stream \in Stream /\ wire \in Seq(Event) /\ stream.at # "off" /\ Exists /\ stream.sent <= Run.steps
        /\ Len(fetches) <= MaxFetches
    <2>1. Streams
      BY DEF SInv
    <2>2. Len(fetches) \in Nat /\ DOMAIN fetches = 1..Len(fetches)
      BY <2>1, StreamTypes
    <2>3. stream.at # "off"
      <3>1. fetches # <<>>
        OBVIOUS
      <3> QED BY <2>1, <3>1 DEF Streams
    <2> QED BY <2>1, <2>2, <2>3 DEF Streams
  <1>3. /\ fetches' \in Seq(Fetch) /\ Len(fetches') = Len(fetches) /\ fetches'[f] = x
        /\ \A g \in DOMAIN fetches : g # f => fetches'[g] = fetches[g]
    <2> HIDE DEF Fetch
    <2> QED BY <1>2
  <1>4. Numbers' = Numbers /\ Event' = Event /\ Fetch' = Fetch /\ Stream' = Stream /\ View' = View
    BY <1>1, <1>3, TypesStay
  <1>5. InOrder(view', wire, stream)
    BY KnownStays DEF InOrder, SInv
  <1>6. InOrder(view, wire, stream)' /\ NoHoles(view)'
    <2>1. InOrder(view', wire', stream')
      BY <1>5
    <2> QED BY <2>1 DEF InOrder, NoHoles, Known
  <1> HIDE DEF Run, Exists, Numbers, Event, Fetch, Stream, View
  <1>7. Streams'
    <2>1. view' \in View'
      BY <1>4
    <2>2. fetches' \in Seq(Fetch') /\ Len(fetches') <= MaxFetches
      BY <1>2, <1>3, <1>4
    <2> QED BY <1>1, <1>2, <1>4, <2>1, <2>2 DEF Streams
  <1>8. ASSUME Run.status \in Ended, LastIsFresh PROVE LastIsFresh'
    <2>1. Len(fetches) # 0 /\ IsFresh(fetches[Len(fetches)]) /\ (view.from = Len(fetches) => Complete)
      BY <1>8 DEF LastIsFresh
    <2>2. Len(fetches) \in DOMAIN fetches
      BY <1>2, <2>1
    <2>3. IsFresh(fetches[Len(fetches)])'
      <3>1. CASE f = Len(fetches)
        <4>1. IsFresh(x)
          BY <1>2, <1>8, <2>1, <3>1
        <4>2. fetches'[Len(fetches')] = x
          BY <1>3, <3>1
        <4> QED BY <1>1, <4>1, <4>2 DEF IsFresh
      <3>2. CASE f # Len(fetches)
        <4>1. fetches'[Len(fetches')] = fetches[Len(fetches)]
          BY <1>3, <2>2, <3>2
        <4> QED BY <1>1, <2>1, <4>1 DEF IsFresh
      <3> QED BY <3>1, <3>2
    <2>4. view'.from = Len(fetches') => Complete'
      <3>1. CASE view' = view
        BY <1>1, <1>3, <2>1, <3>1 DEF Complete
      <3>2. CASE view'.from = f /\ (Exists /\ Run.status \in Ended /\ IsFresh(fetches[f]) => Complete')
        BY <1>2, <1>3, <1>8, <2>1, <3>2
      <3> QED BY <3>1, <3>2
    <2> QED BY <1>3, <2>1, <2>3, <2>4 DEF LastIsFresh
  <1>9. Closes'
    <2>1. wire' = wire /\ stream' = stream
      OBVIOUS
    <2> HIDE DEF LastIsFresh
    <2> QED BY <1>1, <1>8, <2>1 DEF Closes, SInv
  <1> QED BY <1>6, <1>7, <1>9 DEF SInv

(* The answer to a reload, or its failure, keeps the promises.               *)
LEMMA AnswersStreams ==
  ASSUME AInv, SInv, NEW f \in DOMAIN fetches, Deliver(f) \/ Fails(f)
  PROVE  SInv'
  <1>1. UNCHANGED <<avars, stream, wire>>
    BY DEF Deliver, ReadRun, ReadSteps, ReadApprovals, Arrives, Fails
  <1>2. /\ fetches[f] \in Fetch /\ view \in View /\ scene.steps \in Nat
        /\ view.steps \in SUBSET Numbers /\ view.dropped \in SUBSET Numbers
    BY StreamTypes DEF SInv, Streams, View
  <1>3. NoHoles(view) /\ Len(fetches) \in Nat /\ DOMAIN fetches = 1..Len(fetches)
    BY StreamTypes DEF SInv
  <1>4. Exists /\ Run.steps \in Numbers /\ Run.status \in Statuses
    <2>1. fetches # <<>>
      OBVIOUS
    <2> QED BY <2>1, StreamTypes DEF SInv, Streams
  <1>5. Shown(Run.status) \in Words /\ (Run.status \in Ended => Shown(Run.status) = "over")
    <2> HIDE DEF Run
    <2> QED BY <1>4 DEF Shown, Words, Ended, Open
  <1> HIDE DEF Exists
  <1>6. CASE ReadRun(f)
    <2>1. PICK y : y = [fetches[f] EXCEPT !.at = "steps"]
      OBVIOUS
    <2>2. y \in Fetch /\ y.at = "steps"
      BY <1>2, <2>1 DEF Fetch
    <2>3. PICK s : s = Shown(Run.status)
      OBVIOUS
    <2>4. PICK x : x = [y EXCEPT !.status = s]
      OBVIOUS
    <2>5. x \in Fetch /\ x.at = "steps" /\ x.status = s
      BY <1>5, <2>2, <2>3, <2>4 DEF Fetch
    <2>6. fetches' = [fetches EXCEPT ![f] = x] /\ view' = view
      BY <1>6, <2>1, <2>3, <2>4 DEF ReadRun
    <2>7. Run.status \in Ended => IsFresh(x)
      BY <1>5, <2>3, <2>5 DEF IsFresh
    <2> QED BY <1>1, <1>2, <1>3, <2>5, <2>6, <2>7, FetchStreams
  <1>7. CASE ReadSteps(f)
    <2>1. PICK y : y = [fetches[f] EXCEPT !.at = "approvals"]
      OBVIOUS
    <2>2. y \in Fetch /\ y.at = "approvals" /\ y.status = fetches[f].status
      BY <1>2, <2>1 DEF Fetch
    <2>3. PICK s : s = Run.steps
      OBVIOUS
    <2>4. PICK x : x = [y EXCEPT !.steps = s]
      OBVIOUS
    <2>5. x \in Fetch /\ x.at = "approvals" /\ x.status = fetches[f].status /\ x.steps = s
      BY <1>4, <2>2, <2>3, <2>4 DEF Fetch
    <2>6. fetches' = [fetches EXCEPT ![f] = x] /\ view' = view /\ fetches[f].at = "steps"
      BY <1>7, <2>1, <2>3, <2>4 DEF ReadSteps
    <2>7. IsFresh(fetches[f]) => IsFresh(x)
      BY <2>3, <2>5, <2>6 DEF IsFresh
    <2> QED BY <1>1, <1>2, <1>3, <2>5, <2>6, <2>7, FetchStreams
  <1>8. CASE ReadApprovals(f)
    <2>1. PICK y : y = [fetches[f] EXCEPT !.at = "answered"]
      OBVIOUS
    <2>2. y \in Fetch /\ y.at = "answered" /\ y.status = fetches[f].status /\ y.steps = fetches[f].steps
      BY <1>2, <2>1 DEF Fetch
    <2>3. PICK s \in BOOLEAN : s = (Run.status = "awaiting_approval")
      OBVIOUS
    <2>4. PICK x : x = [y EXCEPT !.pending = s]
      OBVIOUS
    <2>5. x \in Fetch /\ x.at = "answered" /\ x.status = fetches[f].status /\ x.steps = fetches[f].steps /\ x.pending = s
      BY <2>2, <2>3, <2>4 DEF Fetch
    <2>6. fetches' = [fetches EXCEPT ![f] = x] /\ view' = view /\ fetches[f].at = "approvals"
      BY <1>8, <2>1, <2>3, <2>4 DEF ReadApprovals
    <2>7. Run.status \in Ended /\ IsFresh(fetches[f]) => IsFresh(x)
      <3>1. Run.status \in Ended => ~s
        BY <2>3 DEF Ended
      <3> HIDE DEF Run
      <3> QED BY <2>5, <2>6, <3>1 DEF IsFresh
    <2> QED BY <1>1, <1>2, <1>3, <2>5, <2>6, <2>7, FetchStreams
  <1>9. PICK z : z = [Asked EXCEPT !.at = "over"]
    OBVIOUS
  <1>10. z \in Fetch /\ IsFresh(z)
    <2>1. z = [at |-> "over", status |-> "none", steps |-> 0, pending |-> FALSE]
      BY <1>9 DEF Asked
    <2>2. 0 \in Numbers
      BY <1>2 DEF Numbers
    <2>3. z \in Fetch
      BY <2>1, <2>2 DEF Fetch, Words
    <2> QED BY <2>1, <2>3 DEF IsFresh
  <1>11. CASE Fails(f)
    <2>1. fetches' = [fetches EXCEPT ![f] = z] /\ view' = view
      BY <1>9, <1>11 DEF Fails
    <2> QED BY <1>1, <1>2, <1>3, <1>10, <2>1, FetchStreams
  <1>12. CASE Arrives(f)
    <2>1. /\ fetches' = [fetches EXCEPT ![f] = z] /\ fetches[f].at = "answered"
          /\ view' = [status |-> fetches[f].status, steps |-> 1..fetches[f].steps, pending |-> fetches[f].pending,
                      from |-> f, dropped |-> (view.dropped \cup view.steps) \ (1..fetches[f].steps)]
      BY <1>9, <1>12 DEF Arrives
    <2>2. fetches[f].steps \in Numbers /\ fetches[f].status \in Words /\ fetches[f].pending \in BOOLEAN
      BY <1>2 DEF Fetch
    <2>3. 1..fetches[f].steps \in SUBSET Numbers /\ \A n \in 1..fetches[f].steps : 1..n \subseteq 1..fetches[f].steps
      BY <1>2, <2>2 DEF Numbers
    <2>4. f \in 0..Len(fetches)
      BY <1>3
    <2>5. view' \in View
      BY <1>2, <2>1, <2>2, <2>3, <2>4 DEF View
    <2>6. view.steps \cup view.dropped \subseteq view'.steps \cup view'.dropped
      BY <2>1
    <2>7. NoHoles(view')
      <3>1. view'.steps = 1..fetches[f].steps
        BY <2>1
      <3> QED BY <2>3, <3>1 DEF NoHoles
    <2>8. view'.from = f
      BY <2>1
    <2>9. IsFresh(fetches[f]) => Complete'
      <3>1. Run' = Run
        BY <1>1, RunStays
      <3> HIDE DEF Run
      <3> QED BY <2>1, <3>1 DEF IsFresh, Complete
    <2> QED BY <1>1, <1>2, <1>3, <1>10, <2>1, <2>5, <2>6, <2>7, <2>8, <2>9, FetchStreams
  <1> QED BY <1>6, <1>7, <1>8, <1>11, <1>12 DEF Deliver

(* Every step keeps the promises of the stream.                              *)
LEMMA StreamsStep == AInv /\ AInv' /\ RunsMove /\ SInv /\ [Next]_vars => SInv'
  <1> SUFFICES ASSUME AInv, AInv', RunsMove, SInv, [Next]_vars PROVE SInv'
    OBVIOUS
  <1>1. CASE ANext /\ UNCHANGED <<stream, wire, fetches, view>>
    BY <1>1, AdmissionStreams
  <1>2. CASE Watch
    BY <1>2, WatchStreams
  <1>3. CASE Serve
    BY <1>3, PollStepsStreams, PollStatusStreams, OthersStreams DEF Serve
  <1>4. CASE StreamTimesOut
    BY <1>4, OthersStreams
  <1>5. CASE ConnectionBreaks
    BY <1>5, BreaksStreams
  <1>6. CASE Receive
    BY <1>6, ReceiveStreams
  <1>7. CASE UserActs
    <2>1. [ANext]_avars
      BY ViewersOnlyAdmit
    <2> QED BY <1>7, <2>1, UserStreams
  <1>8. CASE \E f \in DOMAIN fetches : Deliver(f) \/ Fails(f)
    BY <1>8, AnswersStreams
  <1>9. CASE UNCHANGED vars
    <2>1. UNCHANGED <<avars, stream, wire, fetches, view>>
      BY <1>9 DEF vars
    <2>2. scene' = scene /\ Run' = Run /\ Exists' = Exists
      BY <2>1, RunStays
    <2>3. Numbers' = Numbers /\ Event' = Event /\ Fetch' = Fetch /\ Stream' = Stream /\ View' = View
      BY <2>1, <2>2, TypesStay
    <2> HIDE DEF Run, Exists, Numbers, Event, Fetch, Stream, View
    <2>4. Streams'
      BY <2>1, <2>2, <2>3 DEF Streams, SInv
    <2>5. InOrder(view, wire, stream)' /\ NoHoles(view)'
      BY <2>1 DEF InOrder, NoHoles, Known, SInv
    <2>6. Closes'
      BY <2>1, <2>2 DEF Closes, SInv, LastIsFresh, IsFresh, Complete
    <2> QED BY <2>4, <2>5, <2>6 DEF SInv
  <1> QED BY <1>1, <1>2, <1>3, <1>4, <1>5, <1>6, <1>7, <1>8, <1>9 DEF Next

(* They hold of the initial states: nothing has been sent.                   *)
LEMMA StreamsInit ==
  ASSUME Init, AInv
  PROVE  SInv
  <1> USE DEF Init
  <1>1. scene.steps \in Nat /\ MaxFetches \in Nat
    BY SceneTypes, ReloadsAssumption DEF AInv, DoorTyped
  <1>2. Len(wire) = 0 /\ Len(fetches) = 0 /\ wire \in Seq(Event) /\ fetches \in Seq(Fetch)
    <2> HIDE DEF Event, Fetch
    <2> QED OBVIOUS
  <1>3. stream \in Stream
    BY <1>1 DEF Stream, Numbers
  <1>4. view \in View
    BY <1>2 DEF View, Words
  <1>5. Streams
    BY <1>1, <1>2, <1>3, <1>4 DEF Streams
  <1>6. InOrder(view, wire, stream)
    BY <1>2 DEF InOrder
  <1>7. NoHoles(view)
    BY DEF NoHoles
  <1>8. Closes
    BY DEF Closes, Ended
  <1> QED BY <1>5, <1>6, <1>7, <1>8 DEF SInv

(* What the invariants say of the view, and of every variable's type.        *)
LEMMA StreamsRead == SInv => HolesComeFromReloads /\ DoneShowsEverything
  BY DEF SInv, NoHoles, HolesComeFromReloads, Closes, LastIsFresh, DoneShowsEverything

(* The two invariants hold the types.                                        *)
LEMMA TypesRead == AInv /\ SInv => TypeOK
  <1> SUFFICES ASSUME AInv, SInv PROVE TypeOK
    OBVIOUS
  <1>1. clock \in 0..scene.time /\ today \in 1..scene.days /\ \A o \in Orgs : hits[o] \in [0..scene.time -> Nat]
    BY DEF AInv, DoorTyped, Table
  <1>2. \A q \in Requests :
          /\ req[q].at \in {"away", "clocked", "admitted", "clear", "answered"}
          /\ req[q].ticket \in Tickets <=> req[q].at \in {"clocked", "admitted", "clear"}
    BY DEF AInv, DoorTyped, Request, Places, Within
  <1>3. /\ runs \in Seq(RunRecord)
        /\ \A w \in Workers : busy[w].run # 0 => runs[busy[w].run].status \in {"running"} \cup Ended
        /\ \A v, w \in Workers : busy[v].run = busy[w].run => v = w \/ busy[v].run = 0
    BY DEF AInv, RunsTyped, Driven
  <1>4. /\ stream.at \in {"off", "steps", "status", "approvals", "closed", "lost"}
        /\ stream.sent \in 0..(scene.steps + 1) /\ stream.told \in Statuses \cup {"none"}
    BY DEF SInv, Streams, Stream, Numbers
  <1>5. view.status \in {"none", "live", "over"} /\ view.pending \in BOOLEAN
    BY DEF SInv, Streams, View, Words
  <1>6. wire \in Seq(Event) /\ Len(fetches) <= MaxFetches
    BY DEF SInv, Streams
  <1> HIDE DEF RunRecord, Event
  <1> QED BY <1>1, <1>2, <1>3, <1>4, <1>5, <1>6 DEF TypeOK

-----------------------------------------------------------------------------
(* The theorems. *)

(* What holds of the runs and of those who watch one, in every state.        *)
IInv == AInv /\ SInv

(* The invariant holds of the initial states.                                *)
LEMMA Initially == Init => IInv
  <1> SUFFICES ASSUME Init PROVE IInv
    OBVIOUS
  <1>1. AInv
    BY AdmissionInit DEF Init
  <1> QED BY <1>1, StreamsInit DEF IInv

(* Every step keeps the invariant.                                           *)
LEMMA Inductively == IInv /\ [Next]_vars => IInv'
  <1> SUFFICES ASSUME IInv, [Next]_vars PROVE IInv'
    OBVIOUS
  <1>1. [ANext]_avars
    BY ViewersOnlyAdmit
  <1>2. AInv' /\ RunsMove
    BY <1>1, AdmissionStep DEF IInv
  <1>3. SInv'
    BY <1>2, StreamsStep DEF IInv
  <1> QED BY <1>2, <1>3 DEF IInv

(* IInv is an invariant of the stream, its viewer and all they watch.        *)
THEOREM StreamsHold == Spec => []IInv
  BY Initially, Inductively, PTL DEF Spec

(* Every variable has its type; a worker has a run of its own, and a request *)
(* its ticket just while it is handled.                                      *)
THEOREM TypeCorrect == Spec => []TypeOK
  <1>1. IInv => TypeOK
    BY TypesRead DEF IInv
  <1> QED BY <1>1, StreamsHold, PTL

(* A step missing below the newest one shown was taken away by an answer to  *)
(* a reload: the stream's own order leaves no holes (stream_run, onStep).    *)
THEOREM HolesComeFromReloadsAlways == Spec => []HolesComeFromReloads
  <1>1. IInv => HolesComeFromReloads
    BY StreamsRead DEF IInv
  <1> QED BY <1>1, StreamsHold, PTL

(* A view with the answer to its last reload is complete when the stream has *)
(* closed on an ended run, whatever overtook what (onDone).                  *)
THEOREM DoneShowsEverythingAlways == Spec => []DoneShowsEverything
  <1>1. IInv => DoneShowsEverything
    BY StreamsRead DEF IInv
  <1> QED BY <1>1, StreamsHold, PTL
=============================================================================
