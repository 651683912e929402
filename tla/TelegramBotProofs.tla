------------------------- MODULE TelegramBotProofs -------------------------
(***************************************************************************)
(* Proofs about TelegramBot, for every set of chats, accounts, devices and *)
(* scenes, and any number of updates and runs of the bot: the types, the   *)
(* one account of a chat, and what becomes of an update.                   *)
(***************************************************************************)
EXTENDS TelegramBot, WellFoundedInduction, TLAPS

USE BotAssumption DEF Pollers

Busy == {"answer", "stamp", "call", "wait", "reply"}

\* A poller has an update exactly while it is busy, a batch only while it is
\* busy or about to be, and an offset not before it has polled.
StageInv ==
    \A p \in Pollers :
        /\ pc[p] \in Busy <=> now[p] # 0
        /\ pc[p] \notin Busy \cup {"next"} => rest[p] = {}
        /\ pc[p] \in {"off", "login"} => offset[p] = 0

\* A device that was added on a server has an id and an owner.
TJob == {j \in Job : j.do = "create" /\ j.step = "remote"
                        => j.conn \in Conns /\ j.user \in Ids}

Types == TypeOK /\ jobs \subseteq TJob /\ todo \in [Pollers -> SUBSET TJob]

TInv == Types /\ StageInv

-----------------------------------------------------------------------------
(* Records *)

\* Edits of a document.
LEMMA DocTypes ==
    /\ Blank \in Doc /\ Blank.users = {}
    /\ \A d \in Doc : d.users \subseteq UserRec /\ d.conns \subseteq ConnRec
    /\ \A d \in Doc, us \in SUBSET UserRec :
         /\ [d EXCEPT !.users = us] \in Doc
         /\ [d EXCEPT !.users = us].users = us
    /\ \A d \in Doc, cs \in SUBSET ConnRec :
         /\ [d EXCEPT !.conns = cs] \in Doc
         /\ [d EXCEPT !.conns = cs].users = d.users
    /\ \A d \in Doc, b \in BOOLEAN :
         /\ [d EXCEPT !.on = b] \in Doc
         /\ [d EXCEPT !.on = b].users = d.users
<1>1. Blank \in Doc /\ Blank.users = {}
  BY DEF Doc, Blank
<1>2. \A d \in Doc : d.users \subseteq UserRec /\ d.conns \subseteq ConnRec
  BY DEF Doc
<1>3. ASSUME NEW d \in Doc, NEW us \in SUBSET UserRec
      PROVE  /\ [d EXCEPT !.users = us] \in Doc
             /\ [d EXCEPT !.users = us].users = us
  BY Zenon DEF Doc
<1>4. ASSUME NEW d \in Doc, NEW cs \in SUBSET ConnRec
      PROVE  /\ [d EXCEPT !.conns = cs] \in Doc
             /\ [d EXCEPT !.conns = cs].users = d.users
  BY Zenon DEF Doc
<1>5. ASSUME NEW d \in Doc, NEW b \in BOOLEAN
      PROVE  /\ [d EXCEPT !.on = b] \in Doc
             /\ [d EXCEPT !.on = b].users = d.users
  BY Zenon DEF Doc
<1> QED
  BY <1>1, <1>2, <1>3, <1>4, <1>5

\* Turns of a service.
LEMMA JobTypes ==
    /\ \A j \in TJob : /\ j.by \in Pollers /\ j.do \in Works /\ j.chat \in Chats
                       /\ j.user \in Ids \cup {None} /\ j.conn \in Conns \cup {None}
                       /\ j.step \in Steps /\ j.copy \in Doc
                       /\ j \in Job
    /\ \A j \in TJob, s \in Steps \ {"remote"}, d \in Doc :
         /\ [j EXCEPT !.step = s, !.copy = d] \in TJob
         /\ [j EXCEPT !.step = s, !.copy = d].copy = d
    /\ \A j \in TJob : j.do # "create" =>
         /\ [j EXCEPT !.step = "remote"] \in TJob
         /\ [j EXCEPT !.step = "remote"].copy = j.copy
    /\ \A j \in TJob, c \in Conns : j.user \in Ids =>
         /\ [j EXCEPT !.step = "remote", !.conn = c] \in TJob
         /\ [j EXCEPT !.step = "remote", !.conn = c].copy = j.copy
    /\ \A j \in TJob :
         /\ [j EXCEPT !.do = "touch", !.step = "called"] \in TJob
         /\ [j EXCEPT !.do = "touch", !.step = "called"].copy = j.copy
<1>1. \A j \in TJob : /\ j.by \in Pollers /\ j.do \in Works /\ j.chat \in Chats
                       /\ j.user \in Ids \cup {None} /\ j.conn \in Conns \cup {None}
                       /\ j.step \in Steps /\ j.copy \in Doc
                       /\ j \in Job
  BY DEF TJob, Job
<1>2. ASSUME NEW j \in TJob, NEW s \in Steps \ {"remote"}, NEW d \in Doc
      PROVE  /\ [j EXCEPT !.step = s, !.copy = d] \in TJob
             /\ [j EXCEPT !.step = s, !.copy = d].copy = d
  BY DEF TJob, Job
<1>3. ASSUME NEW j \in TJob, j.do # "create"
      PROVE  /\ [j EXCEPT !.step = "remote"] \in TJob
             /\ [j EXCEPT !.step = "remote"].copy = j.copy
  BY <1>3 DEF TJob, Job, Steps
<1>4. ASSUME NEW j \in TJob, NEW c \in Conns, j.user \in Ids
      PROVE  /\ [j EXCEPT !.step = "remote", !.conn = c] \in TJob
             /\ [j EXCEPT !.step = "remote", !.conn = c].copy = j.copy
  BY <1>4 DEF TJob, Job, Steps
<1>5. ASSUME NEW j \in TJob
      PROVE  /\ [j EXCEPT !.do = "touch", !.step = "called"] \in TJob
             /\ [j EXCEPT !.do = "touch", !.step = "called"].copy = j.copy
  BY DEF TJob, Job, Steps, Works
<1> QED
  BY <1>1, <1>2, <1>3, <1>4, <1>5

LEMMA StopTypes ==
    /\ \A s \in Stop : s.of \in Pollers \cup {None} /\ s.copy \in Doc
    /\ \A x \in Pollers \cup {None}, b \in BOOLEAN, d \in Doc :
         /\ [of |-> x, saves |-> b, copy |-> d] \in Stop
         /\ [of |-> x, saves |-> b, copy |-> d].copy = d
    /\ \A s \in Stop, x \in Pollers \cup {None} :
         /\ [s EXCEPT !.of = x] \in Stop
         /\ [s EXCEPT !.of = x].copy = s.copy
<1>1. \A s \in Stop : s.of \in Pollers \cup {None} /\ s.copy \in Doc
  BY Zenon DEF Stop
<1>2. ASSUME NEW x \in Pollers \cup {None}, NEW b \in BOOLEAN, NEW d \in Doc
      PROVE  /\ [of |-> x, saves |-> b, copy |-> d] \in Stop
             /\ [of |-> x, saves |-> b, copy |-> d].copy = d
  BY Zenon DEF Stop
<1>3. ASSUME NEW s \in Stop, NEW x \in Pollers \cup {None}
      PROVE  /\ [s EXCEPT !.of = x] \in Stop
             /\ [s EXCEPT !.of = x].copy = s.copy
  BY Zenon DEF Stop
<1> QED
  BY <1>1, <1>2, <1>3

-----------------------------------------------------------------------------
(* Types *)

\* Where runs are left, one of them comes first.
LEMMA FirstExists ==
    ASSUME Fresh # {}
    PROVE  FirstFresh \in Pollers /\ pc[FirstFresh] = "off"
<1> DEFINE Less == {s \in Nat \X Nat : s[1] < s[2]}
<1>1. IsWellFoundedOn(Less, Nat)
  BY NatLessThanWellFounded DEF OpToRel
<1>2. Fresh \in SUBSET Nat
  BY DEF Fresh
<1>3. \E x \in Fresh : \A y \in Fresh : <<y, x>> \notin Less
  <2> HIDE DEF Less
  <2> QED
    BY <1>1, <1>2, WFMin
<1>4. PICK x \in Fresh : \A y \in Fresh : <<y, x>> \notin Less
  BY <1>3
<1>5. ASSUME NEW y \in Fresh PROVE x <= y
  <2>1. <<y, x>> \in Nat \X Nat /\ ~(y < x)
    BY <1>2, <1>4
  <2> QED
    BY <1>2, <2>1
<1> QED
  BY <1>5 DEF Fresh, FirstFresh

LEMMA InitTypes == Init => TInv
<1> SUFFICES ASSUME Init PROVE TInv
  OBVIOUS
<1>1. scene \in Scene /\ scene.doc \in Doc /\ scene.sends \in Nat /\ scene.switches \in Nat
  BY DEF Init, Scene
<1>2. used \subseteq Ids \cup Conns
  BY <1>1, DocTypes DEF Init, UserRec, ConnRec
<1>3. Types
  <2>1. store \in Doc /\ copy \in [Pollers -> Doc]
    BY <1>1, DocTypes DEF Init
  <2>2. /\ task \in Pollers \cup {None} /\ pc \in [Pollers -> Stages]
        /\ pending \in [Chats -> Waits]
    BY DEF Init, Stages, Waits
  <2>3. /\ sent \in Seq(Msg) /\ Len(sent) = 0
        /\ Len(sent) <= scene.sends /\ switched \in 0..scene.switches
        /\ confirmed \in 0..Len(sent)
    BY <1>1 DEF Init
  <2>4. /\ offset \in [Pollers -> 0..(Len(sent) + 1)]
        /\ rest \in [Pollers -> SUBSET (1..Len(sent))]
        /\ now \in [Pollers -> 0..Len(sent)]
    BY <2>3 DEF Init
  <2>5. /\ todo \in [Pollers -> SUBSET TJob]
        /\ jobs \subseteq TJob /\ stops \subseteq Stop
        /\ handled \subseteq Pollers \X (1..Len(sent))
    BY DEF Init
  <2> QED
    BY <1>2, <2>1, <2>2, <2>3, <2>4, <2>5 DEF Init, Types, TypeOK
<1>4. StageInv
  BY DEF Init, StageInv, Busy
<1> QED
  BY <1>3, <1>4 DEF TInv

\* The account that a look-up found is one that is stored.
LEMMA AccountTypes ==
    ASSUME Types, NEW chat \in Chats, Known(chat)
    PROVE  Account(chat) \in store.users /\ Account(chat).chat = chat
               /\ UserFor(chat) \in Ids
<1>1. Account(chat) \in UsersOf(store, chat)
  BY DEF Known, Account
<1> QED
  BY <1>1, DocTypes DEF UsersOf, UserFor, UserRec, Types, TypeOK

\* What a handler asks for is a service, for an account that was found.
LEMMA HandlerJobs ==
    ASSUME Types, NEW p \in Pollers, NEW m \in Msg
    PROVE  LET js == Jobs(p, m, Asks(m, pending[m.chat], Known(m.chat)))
           IN  js \subseteq TJob /\ \A j \in js : j.copy = Blank
<1> DEFINE do == Asks(m, pending[m.chat], Known(m.chat))
<1>1. m.chat \in Chats /\ m.conn \in Conns \cup {None}
  BY DEF Msg
<1>2. /\ do \in Works \cup {"nothing"}
      /\ do \notin {"nothing", "register"} => Known(m.chat)
  BY DEF Asks, Works
<1>3. do \notin {"nothing", "register"} => UserFor(m.chat) \in Ids
  BY <1>1, <1>2, AccountTypes
<1>4. Blank \in Doc
  BY DocTypes
<1> HIDE DEF do
<1> QED
  BY <1>1, <1>2, <1>3, <1>4 DEF Jobs, TJob, Job, Steps, do

LEMMA WaitsTypes ==
    ASSUME NEW m \in Msg, NEW w \in Waits, NEW known \in BOOLEAN
    PROVE  WaitsFor(m, w, known) \in Waits
BY DEF WaitsFor, Waits

LEMMA SceneTypes ==
    ASSUME Types
    PROVE  scene \in Scene /\ scene.doc \in Doc /\ scene.sends \in Nat
               /\ scene.switches \in Nat
BY DEF Types, TypeOK, Scene

\* The types of what a poller goes by, for an update it may have.
LEMMA PollTypes ==
    ASSUME Types, NEW p \in Pollers
    PROVE  /\ pc[p] \in Stages /\ offset[p] \in 0..(Len(sent) + 1)
           /\ rest[p] \subseteq 1..Len(sent) /\ now[p] \in 0..Len(sent)
           /\ todo[p] \subseteq TJob /\ copy[p] \in Doc
           /\ Len(sent) \in Nat
           /\ \A n \in 1..Len(sent) : sent[n] \in Msg
<1>1. sent \in Seq(Msg)
  BY DEF Types, TypeOK
<1>2. Len(sent) \in Nat /\ \A n \in 1..Len(sent) : sent[n] \in Msg
  BY <1>1
<1>3. /\ pc[p] \in Stages /\ todo[p] \subseteq TJob /\ copy[p] \in Doc
  BY DEF Types, TypeOK
<1>4. /\ offset[p] \in 0..(Len(sent) + 1) /\ now[p] \in 0..Len(sent)
      /\ rest[p] \subseteq 1..Len(sent)
  BY DEF Types, TypeOK
<1> QED
  BY <1>2, <1>3, <1>4


LEMMA SendTypes ==
    ASSUME TInv, NEW m \in Msg, Send(m)
    PROVE  TInv'
<1>1. sent' \in Seq(Msg) /\ Len(sent') = Len(sent) + 1 /\ Len(sent') <= scene.sends
  <2>1. sent \in Seq(Msg) /\ sent' = Append(sent, m)
    BY DEF TInv, Types, TypeOK, Send
  <2>2. Len(sent) < scene.sends /\ UNCHANGED scene
    BY DEF Send
  <2> QED
    BY <2>1, <2>2, SceneTypes DEF TInv
<1>2. Types'
  <2>1. /\ offset' \in [Pollers -> 0..(Len(sent') + 1)]
        /\ rest' \in [Pollers -> SUBSET (1..Len(sent'))]
        /\ now' \in [Pollers -> 0..Len(sent')]
    BY <1>1 DEF TInv, Types, TypeOK, Send, polling
  <2>2. handled' \subseteq Pollers \X (1..Len(sent')) /\ confirmed' \in 0..Len(sent')
    BY <1>1 DEF TInv, Types, TypeOK, Send, polling
  <2> QED
    BY <1>1, <2>1, <2>2 DEF TInv, Types, TypeOK, Send, doc, control, polling
<1>3. StageInv'
  BY DEF TInv, StageInv, Send, polling
<1> QED
  BY <1>2, <1>3 DEF TInv

\* What getUpdates makes Telegram forget was there.
LEMMA ConfirmedTypes ==
    ASSUME Types, NEW p \in Pollers
    PROVE  Confirmed(p) \in 0..Len(sent) /\ Confirmed(p) >= confirmed
               /\ Confirmed(p) >= offset[p] - 1
<1>1. offset[p] \in 0..(Len(sent) + 1) /\ Len(sent) \in Nat
  BY PollTypes
<1>2. confirmed \in 0..Len(sent)
  BY DEF Types, TypeOK
<1> QED
  BY <1>1, <1>2 DEF Confirmed

LEMMA PollTakesTypes ==
    ASSUME TInv, NEW p \in Pollers, Poll(p)
    PROVE  TInv'
<1>1. confirmed' \in 0..Len(sent)
  BY ConfirmedTypes DEF TInv, Poll
<1>2. Types'
  BY <1>1 DEF TInv, Types, TypeOK, Poll, doc, control, Stages
<1>3. StageInv'
  BY DEF TInv, Types, TypeOK, StageInv, Busy, Poll
<1> QED
  BY <1>2, <1>3 DEF TInv

LEMMA PollLostTypes ==
    ASSUME TInv, NEW p \in Pollers, PollLost(p)
    PROVE  TInv'
<1>1. confirmed' \in 0..Len(sent)
  BY ConfirmedTypes DEF TInv, PollLost
<1>2. Types'
  BY <1>1 DEF TInv, Types, TypeOK, PollLost, doc, control, polling
<1>3. StageInv'
  BY DEF TInv, StageInv, PollLost, polling
<1> QED
  BY <1>2, <1>3 DEF TInv

\* The part of a handler before its next await.
LEMMA CallsTypes ==
    ASSUME Types, NEW p \in Pollers, NEW js \in SUBSET TJob, Calls(p, js)
    PROVE  /\ pc' \in [Pollers -> Stages] /\ todo' \in [Pollers -> SUBSET TJob]
           /\ jobs' \subseteq TJob
           /\ pc'[p] \in Busy /\ \A q \in Pollers \ {p} : pc'[q] = pc[q]
<1>1. /\ pc \in [Pollers -> Stages] /\ todo \in [Pollers -> SUBSET TJob]
      /\ jobs \subseteq TJob
  BY DEF Types, TypeOK
<1>2. \E x \in {"reply", "call", "wait"} : pc' = [pc EXCEPT ![p] = x]
  BY DEF Calls
<1>3. /\ todo' \in [Pollers -> SUBSET TJob] /\ jobs' \subseteq TJob
  BY <1>1 DEF Calls
<1> QED
  BY <1>1, <1>2, <1>3 DEF Stages, Busy

LEMMA StampFirstTypes ==
    ASSUME Types, NEW p \in Pollers, NEW js \in SUBSET TJob, StampFirst(p, js)
    PROVE  /\ pc' \in [Pollers -> Stages] /\ todo' \in [Pollers -> SUBSET TJob]
           /\ copy' \in [Pollers -> Doc]
           /\ pc'[p] \in Busy /\ \A q \in Pollers \ {p} : pc'[q] = pc[q]
BY DEF Types, TypeOK, StampFirst, Stages, Busy

LEMMA HandleTypes ==
    ASSUME Types, NEW p \in Pollers, NEW m \in Msg, Handle(p, m)
    PROVE  /\ pc' \in [Pollers -> Stages] /\ todo' \in [Pollers -> SUBSET TJob]
           /\ jobs' \subseteq TJob /\ copy' \in [Pollers -> Doc]
           /\ pending' \in [Chats -> Waits]
           /\ pc'[p] \in Busy /\ \A q \in Pollers \ {p} : pc'[q] = pc[q]
<1> DEFINE js == Jobs(p, m, Asks(m, pending[m.chat], Known(m.chat)))
<1>1. m.chat \in Chats /\ pending[m.chat] \in Waits
  BY DEF Msg, Types, TypeOK
<1>2. js \subseteq TJob
  BY HandlerJobs
<1>3. pending' \in [Chats -> Waits]
  <2>1. Known(m.chat) \in BOOLEAN
    BY DEF Known
  <2>2. WaitsFor(m, pending[m.chat], Known(m.chat)) \in Waits
    BY <1>1, <2>1, WaitsTypes
  <2> QED
    BY <2>2 DEF Handle, Types, TypeOK
<1>4. \/ StampFirst(p, js) /\ UNCHANGED jobs
      \/ Calls(p, js) /\ UNCHANGED copy
  BY DEF Handle
<1> HIDE DEF js
<1>5. CASE StampFirst(p, js) /\ UNCHANGED jobs
  BY <1>2, <1>3, <1>5, StampFirstTypes DEF Types, TypeOK
<1>6. CASE Calls(p, js) /\ UNCHANGED copy
  BY <1>2, <1>3, <1>6, CallsTypes DEF Types, TypeOK
<1> QED
  BY <1>4, <1>5, <1>6

LEMMA BeginTypes ==
    ASSUME TInv, NEW p \in Pollers, Begin(p)
    PROVE  TInv'
<1>1. PICK n \in rest[p] :
        /\ now' = [now EXCEPT ![p] = n]
        /\ offset' = [offset EXCEPT ![p] = AfterUpdate(p, n)]
        /\ rest' = [rest EXCEPT ![p] = @ \ {n}]
        /\ IF sent[n].kind \in Buttons
           THEN /\ pc' = [pc EXCEPT ![p] = "answer"]
                /\ UNCHANGED <<pending, todo, copy, jobs>>
           ELSE Handle(p, sent[n])
  BY DEF Begin
<1>2. n \in 1..Len(sent) /\ sent[n] \in Msg /\ pc[p] = "next"
  BY <1>1, PollTypes DEF TInv, Begin
<1>3. /\ pc' \in [Pollers -> Stages] /\ todo' \in [Pollers -> SUBSET TJob]
      /\ jobs' \subseteq TJob /\ copy' \in [Pollers -> Doc]
      /\ pending' \in [Chats -> Waits]
      /\ pc'[p] \in Busy /\ \A q \in Pollers \ {p} : pc'[q] = pc[q]
  <2>1. CASE sent[n].kind \in Buttons
    BY <1>1, <2>1 DEF TInv, Types, TypeOK, Stages, Busy
  <2>2. CASE sent[n].kind \notin Buttons
    BY <1>1, <1>2, <2>2, HandleTypes DEF TInv
  <2> QED
    BY <2>1, <2>2
<1>4. Types'
  <2>1. /\ now \in [Pollers -> 0..Len(sent)]
        /\ offset \in [Pollers -> 0..(Len(sent) + 1)]
        /\ rest \in [Pollers -> SUBSET (1..Len(sent))]
    BY DEF TInv, Types, TypeOK
  <2>2. Len(sent) \in Nat /\ n \in 0..Len(sent) /\ n + 1 \in 0..(Len(sent) + 1)
    BY <1>2, PollTypes DEF TInv, Types, TypeOK
  <2>3. now' \in [Pollers -> 0..Len(sent)]
    BY <1>1, <2>1, <2>2, Zenon
  <2>4. AfterUpdate(p, n) \in 0..(Len(sent) + 1)
    BY <2>2 DEF AfterUpdate
  <2>5. offset' \in [Pollers -> 0..(Len(sent) + 1)]
    BY <1>1, <2>1, <2>4, Zenon
  <2>6. rest[p] \ {n} \in SUBSET (1..Len(sent))
    BY <2>1
  <2>7. rest' \in [Pollers -> SUBSET (1..Len(sent))]
    BY <1>1, <2>1, <2>6
  <2> QED
    BY <1>3, <2>3, <2>5, <2>7, JobTypes DEF TInv, Types, TypeOK, Begin, telegram, doc, control
<1>5. StageInv'
  <2>1. \A q \in Pollers \ {p} : /\ now'[q] = now[q] /\ offset'[q] = offset[q]
                                 /\ rest'[q] = rest[q] /\ pc'[q] = pc[q]
    BY <1>1, <1>3 DEF TInv, Types, TypeOK
  <2>2. now'[p] # 0
    BY <1>1, <1>2 DEF TInv, Types, TypeOK
  <2> QED
    BY <1>3, <2>1, <2>2 DEF TInv, StageInv, Busy
<1> QED
  BY <1>4, <1>5 DEF TInv

LEMMA AnswerTypes ==
    ASSUME TInv, NEW p \in Pollers, Answer(p)
    PROVE  TInv'
<1>1. now[p] # 0 /\ pc[p] = "answer"
  BY DEF TInv, StageInv, Busy, Answer
<1>2. MsgOf(p) \in Msg
  BY <1>1, PollTypes DEF TInv, MsgOf
<1>3. /\ pc' \in [Pollers -> Stages] /\ todo' \in [Pollers -> SUBSET TJob]
      /\ jobs' \subseteq TJob /\ copy' \in [Pollers -> Doc]
      /\ pending' \in [Chats -> Waits]
      /\ pc'[p] \in Busy /\ \A q \in Pollers \ {p} : pc'[q] = pc[q]
  BY <1>2, HandleTypes DEF TInv, Answer
<1>4. Types'
  BY <1>3, JobTypes DEF TInv, Types, TypeOK, Answer, telegram, doc, control
<1>5. StageInv'
  BY <1>1, <1>3 DEF TInv, StageInv, Busy, Answer
<1> QED
  BY <1>4, <1>5 DEF TInv

LEMMA StampTypes ==
    ASSUME TInv, NEW p \in Pollers, Stamp(p)
    PROVE  TInv'
<1>1. todo[p] \subseteq TJob /\ copy[p] \in Doc /\ Blank \in Doc
  BY PollTypes, DocTypes DEF TInv
<1>2. /\ pc' \in [Pollers -> Stages] /\ todo' \in [Pollers -> SUBSET TJob]
      /\ jobs' \subseteq TJob
      /\ pc'[p] \in Busy /\ \A q \in Pollers \ {p} : pc'[q] = pc[q]
  BY <1>1, CallsTypes DEF TInv, Stamp
<1>3. Types'
  BY <1>1, <1>2, JobTypes DEF TInv, Types, TypeOK, Stamp, telegram, control
<1>4. StageInv'
  BY <1>2 DEF TInv, StageInv, Busy, Stamp
<1> QED
  BY <1>3, <1>4 DEF TInv

LEMMA CallTypes ==
    ASSUME TInv, NEW p \in Pollers, Call(p)
    PROVE  TInv'
<1>1. todo[p] \subseteq TJob
  BY PollTypes DEF TInv
<1>2. Types'
  BY <1>1 DEF TInv, Types, TypeOK, Call, Stages, telegram, doc, control
<1>3. StageInv'
  BY DEF TInv, Types, TypeOK, StageInv, Busy, Call
<1> QED
  BY <1>2, <1>3 DEF TInv

LEMMA ResumeTypes ==
    ASSUME TInv, NEW p \in Pollers, Resume(p)
    PROVE  TInv'
<1>1. PICK j \in jobs :
        /\ j.by = p /\ j.step \in {"done", "already", "refused"}
        /\ LET welcome == j.do = "delete" /\ ~Known(j.chat)
               over    == j.do = "register" /\ j.step # "refused"
           IN  pending' = [pending EXCEPT ![j.chat] =
                    IF welcome THEN "code" ELSE IF over THEN "none" ELSE @]
        /\ IF j.do = "register" /\ j.step = "done"
           THEN /\ jobs' = (jobs \ {j})
                             \cup {[j EXCEPT !.do = "touch", !.step = "called"]}
                /\ UNCHANGED <<pc, copy, todo>>
           ELSE /\ jobs' = jobs \ {j}
                /\ IF j.do = "delete" /\ Known(j.chat)
                   THEN StampFirst(p, {})
                   ELSE /\ pc' = [pc EXCEPT ![p] = "reply"]
                        /\ UNCHANGED <<copy, todo>>
  BY DEF Resume
<1>2. j \in TJob /\ pc[p] = "wait"
  BY DEF TInv, Types, TypeOK, Resume
<1>3. j.chat \in Chats /\ [j EXCEPT !.do = "touch", !.step = "called"] \in TJob
  BY <1>2, JobTypes DEF Works, Steps
<1>4. pending' \in [Chats -> Waits] /\ jobs' \subseteq TJob
  BY <1>1, <1>3 DEF TInv, Types, TypeOK, Waits
<1>5. /\ pc' \in [Pollers -> Stages] /\ todo' \in [Pollers -> SUBSET TJob]
      /\ copy' \in [Pollers -> Doc]
      /\ pc'[p] \in Busy /\ \A q \in Pollers \ {p} : pc'[q] = pc[q]
  <2>1. CASE StampFirst(p, {})
    BY <2>1, StampFirstTypes DEF TInv
  <2>2. CASE pc' = [pc EXCEPT ![p] = "reply"] /\ UNCHANGED <<copy, todo>>
    BY <2>2 DEF TInv, Types, TypeOK, Stages, Busy
  <2>3. CASE UNCHANGED <<pc, copy, todo>>
    BY <1>2, <2>3 DEF TInv, Types, TypeOK, Busy
  <2> QED
    BY <1>1, <2>1, <2>2, <2>3
<1>6. Types'
  BY <1>4, <1>5, JobTypes DEF TInv, Types, TypeOK, Resume, telegram, doc, control
<1>7. StageInv'
  BY <1>2, <1>5 DEF TInv, StageInv, Busy, Resume
<1> QED
  BY <1>6, <1>7 DEF TInv

LEMMA OverTypes ==
    ASSUME TInv, NEW p \in Pollers, Over(p), pc[p] \in Busy
    PROVE  TInv'
<1>1. now[p] \in 1..Len(sent)
  BY PollTypes DEF TInv, StageInv
<1>2. Types'
  <2>1. handled' \subseteq Pollers \X (1..Len(sent))
    BY <1>1 DEF TInv, Types, TypeOK, Over
  <2>2. /\ now' \in [Pollers -> 0..Len(sent)] /\ todo' \in [Pollers -> SUBSET TJob]
        /\ pc' \in [Pollers -> Stages]
    BY <1>1 DEF TInv, Types, TypeOK, Over, Stages
  <2> QED
    BY <2>1, <2>2 DEF TInv, Types, TypeOK, Over, telegram, doc, control
<1>3. StageInv'
  <2>1. pc'[p] = (IF rest[p] = {} THEN "poll" ELSE "next") /\ now'[p] = 0
    BY DEF TInv, Types, TypeOK, Over
  <2>2. \A q \in Pollers \ {p} : pc'[q] = pc[q] /\ now'[q] = now[q]
    BY DEF TInv, Types, TypeOK, Over
  <2> QED
    BY <2>1, <2>2 DEF TInv, StageInv, Busy, Over
<1> QED
  BY <1>2, <1>3 DEF TInv

\* What a thread does to its own entry.
LEMMA TurnsTypes ==
    ASSUME Types, NEW j \in jobs, NEW k \in TJob, Turns(j, k)
    PROVE  jobs' \subseteq TJob
BY DEF Types, TypeOK, Turns

LEMMA EndsTypes ==
    ASSUME Types, NEW j \in jobs, NEW s \in Steps \ {"remote"}, Ends(j, s)
    PROVE  jobs' \subseteq TJob
<1>1. [j EXCEPT !.step = s, !.copy = Blank] \in TJob
  BY JobTypes, DocTypes DEF Types, TypeOK
<1> QED
  BY <1>1 DEF Types, TypeOK, Ends

LEMMA LoadsTypes ==
    ASSUME Types, NEW j \in jobs, NEW d \in Doc, Loads(j, d)
    PROVE  jobs' \subseteq TJob
<1>1. [j EXCEPT !.step = "loaded", !.copy = d] \in TJob
  BY JobTypes DEF Types, TypeOK, Steps
<1> QED
  BY <1>1, TurnsTypes DEF Loads

LEMMA SavesTypes ==
    ASSUME Types, NEW j \in jobs, Saves(j)
    PROVE  jobs' \subseteq TJob /\ store' \in Doc /\ used' \subseteq Ids \cup Conns
<1>1. jobs' \subseteq TJob
  BY EndsTypes DEF Saves, Steps
<1>2. j.copy \in Doc
  BY JobTypes DEF Types, TypeOK
<1> QED
  BY <1>1, <1>2 DEF Types, TypeOK, Saves, Saved

LEMMA RegisterTypes ==
    ASSUME Types, NEW j \in jobs, Register(j)
    PROVE  jobs' \subseteq TJob /\ store' \in Doc /\ used' \subseteq Ids \cup Conns
<1>1. CASE Saves(j)
  BY <1>1, SavesTypes
<1>2. CASE (Ends(j, "already") \/ Ends(j, "refused")) /\ UNCHANGED doc
  BY <1>2, EndsTypes DEF Types, TypeOK, Steps, doc
<1>3. ASSUME NEW i \in Ids \ used,
             Loads(j, [store EXCEPT !.users = @ \cup {[id |-> i, chat |-> j.chat]}]),
             used' = used \cup {i}, UNCHANGED store
      PROVE  jobs' \subseteq TJob /\ store' \in Doc /\ used' \subseteq Ids \cup Conns
  <2>1. store \in Doc /\ j.chat \in Chats
    BY JobTypes DEF Types, TypeOK
  <2>2. store.users \cup {[id |-> i, chat |-> j.chat]} \subseteq UserRec
    BY <2>1, DocTypes DEF UserRec
  <2>3. [store EXCEPT !.users = @ \cup {[id |-> i, chat |-> j.chat]}] \in Doc
    BY <2>1, <2>2, DocTypes
  <2> QED
    BY <1>3, <2>1, <2>3, LoadsTypes DEF Types, TypeOK
<1> QED
  BY <1>1, <1>2, <1>3 DEF Register

LEMMA CreateTypes ==
    ASSUME Types, NEW j \in jobs, j.do = "create", Create(j)
    PROVE  jobs' \subseteq TJob /\ store' \in Doc /\ used' \subseteq Ids \cup Conns
<1>1. j \in TJob /\ store \in Doc /\ used \subseteq Ids \cup Conns
  BY DEF Types, TypeOK
<1>2. CASE Saves(j)
  BY <1>2, SavesTypes
<1>3. CASE Ends(j, "refused") /\ UNCHANGED <<used, store>>
  BY <1>1, <1>3, EndsTypes DEF Steps
<1>4. ASSUME NEW c \in Conns \ used, UNCHANGED store, used' = used \cup {c},
             HasUser(store, j.user), Turns(j, [j EXCEPT !.step = "remote", !.conn = c])
      PROVE  jobs' \subseteq TJob /\ store' \in Doc /\ used' \subseteq Ids \cup Conns
  <2>1. j.user \in Ids
    BY <1>1, <1>4, DocTypes DEF HasUser, UserRec
  <2>2. [j EXCEPT !.step = "remote", !.conn = c] \in TJob
    BY <1>1, <2>1, JobTypes
  <2> QED
    BY <1>1, <1>4, <2>2, TurnsTypes
<1>5. CASE /\ j.step = "remote" /\ j.do = "create" /\ UNCHANGED doc
           /\ Loads(j, [store EXCEPT !.conns = @ \cup {[id |-> j.conn, user |-> j.user]}])
  <2>1. [id |-> j.conn, user |-> j.user] \in ConnRec
    BY <1>1, <1>5 DEF TJob, ConnRec
  <2>2. store.conns \cup {[id |-> j.conn, user |-> j.user]} \in SUBSET ConnRec
    BY <1>1, <2>1, DocTypes
  <2>3. [store EXCEPT !.conns = @ \cup {[id |-> j.conn, user |-> j.user]}] \in Doc
    BY <1>1, <2>2, DocTypes
  <2> QED
    BY <1>1, <1>5, <2>3, LoadsTypes DEF doc
<1> QED
  BY <1>2, <1>3, <1>4, <1>5 DEF Create

LEMMA DeleteTypes ==
    ASSUME Types, NEW j \in jobs, j.do = "delete", Delete(j)
    PROVE  jobs' \subseteq TJob /\ store' \in Doc /\ used' \subseteq Ids \cup Conns
<1>1. j \in TJob /\ store \in Doc /\ used \subseteq Ids \cup Conns
  BY DEF Types, TypeOK
<1>2. CASE Saves(j)
  BY <1>2, SavesTypes
<1>3. CASE Ends(j, "refused") /\ UNCHANGED doc
  BY <1>1, <1>3, EndsTypes DEF Steps, doc
<1>4. CASE Turns(j, [j EXCEPT !.step = "remote"]) /\ UNCHANGED doc
  <2>1. [j EXCEPT !.step = "remote"] \in TJob
    BY <1>1, JobTypes
  <2> QED
    BY <1>1, <1>4, <2>1, TurnsTypes DEF doc
<1>5. CASE /\ UNCHANGED doc
           /\ Loads(j, [store EXCEPT !.conns = {c \in @ : c.id # j.conn}])
  <2>1. {c \in store.conns : c.id # j.conn} \in SUBSET ConnRec
    BY <1>1, DocTypes
  <2>2. [store EXCEPT !.conns = {c \in @ : c.id # j.conn}] \in Doc
    BY <1>1, <2>1, DocTypes
  <2> QED
    BY <1>1, <1>5, <2>2, LoadsTypes DEF doc
<1> QED
  BY <1>2, <1>3, <1>4, <1>5 DEF Delete

LEMMA TouchTypes ==
    ASSUME Types, NEW j \in jobs, Touch(j)
    PROVE  jobs' \subseteq TJob /\ store' \in Doc /\ used' \subseteq Ids \cup Conns
<1>1. store \in Doc /\ used \subseteq Ids \cup Conns
  BY DEF Types, TypeOK
<1>2. CASE Saves(j)
  BY <1>2, SavesTypes
<1>3. CASE Loads(j, store) /\ UNCHANGED doc
  BY <1>1, <1>3, LoadsTypes DEF doc
<1> QED
  BY <1>2, <1>3 DEF Touch

LEMMA ReadTypes ==
    ASSUME Types, NEW j \in jobs, Read(j)
    PROVE  jobs' \subseteq TJob /\ store' \in Doc /\ used' \subseteq Ids \cup Conns
BY EndsTypes DEF Types, TypeOK, Read, Steps, doc

LEMMA WorkTypes ==
    ASSUME TInv, NEW j \in jobs, Work(j)
    PROVE  TInv'
<1>1. jobs' \subseteq TJob /\ store' \in Doc /\ used' \subseteq Ids \cup Conns
  BY RegisterTypes, CreateTypes, DeleteTypes, TouchTypes, ReadTypes DEF TInv, Work
<1>2. UNCHANGED <<scene, telegram, pending, control, polling>>
  BY DEF Work
<1>3. Types'
  BY <1>1, <1>2, JobTypes DEF TInv, Types, TypeOK, telegram, control, polling
<1>4. StageInv'
  BY <1>2 DEF TInv, StageInv, polling
<1> QED
  BY <1>3, <1>4 DEF TInv

LEMMA MovesTypes ==
    ASSUME TInv, NEW p \in Pollers, NEW a, NEW b, Moves(p, a, b),
           <<a, b>> \in {<<"login", "poll">>, <<"login", "closing">>, <<"closing", "done">>}
    PROVE  TInv'
<1>1. pc[p] = a /\ pc' = [pc EXCEPT ![p] = b]
  BY DEF Moves
<1>2. UNCHANGED <<scene, telegram, doc, pending, control, offset, rest, now,
                  todo, copy, handled, jobs>>
  BY DEF Moves
<1>3. Types'
  BY <1>1, <1>2 DEF TInv, Types, TypeOK, Stages, telegram, doc, control
<1>4. StageInv'
  BY <1>1, <1>2 DEF TInv, Types, TypeOK, StageInv, Busy
<1> QED
  BY <1>3, <1>4 DEF TInv

LEMMA LaunchesTypes ==
    ASSUME TInv, Launches
    PROVE  /\ pc' \in [Pollers -> Stages] /\ task' \in Pollers
           /\ pc[FirstFresh] = "off" /\ pc'[FirstFresh] = "login"
           /\ FirstFresh \in Pollers
           /\ \A q \in Pollers \ {FirstFresh} : pc'[q] = pc[q]
BY FirstExists DEF TInv, Types, TypeOK, Launches, Stages

LEMMA CancelledTypes ==
    ASSUME TInv, NEW p \in Pollers, Cancelled(p)
    PROVE  /\ pc' \in [Pollers -> Stages] /\ rest' \in [Pollers -> SUBSET (1..Len(sent))]
           /\ now' \in [Pollers -> 0..Len(sent)] /\ todo' \in [Pollers -> SUBSET TJob]
           /\ jobs' \subseteq jobs
           /\ pc'[p] = "closing" /\ now'[p] = 0 /\ rest'[p] = {} /\ todo'[p] = {}
           /\ \A q \in Pollers \ {p} : /\ pc'[q] = pc[q] /\ now'[q] = now[q]
                                      /\ rest'[q] = rest[q] /\ todo'[q] = todo[q]
<1>1. Len(sent) \in Nat
  BY PollTypes DEF TInv
<1> QED
  BY <1>1 DEF TInv, Types, TypeOK, Cancelled, Stages

LEMMA SwitchedTypes ==
    ASSUME Types, Switched, UNCHANGED scene
    PROVE  switched' \in 0..scene'.switches
<1>1. scene.switches \in Nat /\ switched \in 0..scene.switches
  BY SceneTypes DEF Types, TypeOK
<1>2. switched < scene.switches /\ switched' = switched + 1 /\ scene' = scene
  BY DEF Switched
<1> QED
  BY <1>1, <1>2

LEMMA SaveSettingsTypes ==
    ASSUME TInv, NEW on \in BOOLEAN, SaveSettings(on)
    PROVE  TInv'
<1>1. store' \in Doc
  BY DocTypes DEF TInv, Types, TypeOK, SaveSettings
<1>2. stops' \subseteq Stop
  <2>1. [of |-> None, saves |-> FALSE, copy |-> Blank] \in Stop
    BY StopTypes, DocTypes
  <2>2. \/ stops' = stops
        \/ stops' = stops \cup {[of |-> None, saves |-> FALSE, copy |-> Blank]}
    BY DEF SaveSettings
  <2> QED
    BY <2>1, <2>2 DEF TInv, Types, TypeOK
<1>3. switched' \in 0..scene'.switches
  BY SwitchedTypes DEF TInv, SaveSettings
<1>4. CASE Launches
  <2>1. Types'
    BY <1>1, <1>2, <1>3, <1>4, LaunchesTypes
    DEF TInv, Types, TypeOK, SaveSettings, telegram
  <2>2. StageInv'
    BY <1>4, LaunchesTypes DEF TInv, StageInv, Busy, SaveSettings
  <2> QED
    BY <2>1, <2>2 DEF TInv
<1>5. CASE UNCHANGED <<pc, task>>
  <2>1. Types'
    BY <1>1, <1>2, <1>3, <1>5 DEF TInv, Types, TypeOK, SaveSettings, telegram
  <2>2. StageInv'
    BY <1>5 DEF TInv, StageInv, SaveSettings
  <2> QED
    BY <2>1, <2>2 DEF TInv
<1> QED
  BY <1>4, <1>5 DEF SaveSettings

LEMMA ToggleOnTypes ==
    ASSUME TInv, ToggleOn
    PROVE  TInv'
<1>1. store' \in Doc
  BY DocTypes DEF TInv, Types, TypeOK, ToggleOn
<1>2. switched' \in 0..scene'.switches
  BY SwitchedTypes DEF TInv, ToggleOn
<1>3. Launches
  BY DEF ToggleOn
<1>4. Types'
  BY <1>1, <1>2, <1>3, LaunchesTypes DEF TInv, Types, TypeOK, ToggleOn, telegram
<1>5. StageInv'
  BY <1>3, LaunchesTypes DEF TInv, StageInv, Busy, ToggleOn
<1> QED
  BY <1>4, <1>5 DEF TInv

LEMMA ToggleOffTypes ==
    ASSUME TInv, ToggleOff
    PROVE  TInv'
<1>1. task \in Pollers /\ Cancelled(task)
  BY DEF TInv, Types, TypeOK, ToggleOff, Running
<1>2. [of |-> task, saves |-> TRUE, copy |-> store] \in Stop
  BY <1>1, StopTypes DEF TInv, Types, TypeOK
<1>3. stops' \subseteq Stop
  BY <1>2 DEF TInv, Types, TypeOK, ToggleOff
<1>4. switched' \in 0..scene'.switches
  BY SwitchedTypes DEF TInv, ToggleOff
<1>5. UNCHANGED <<scene, telegram, doc, pending, task, offset, copy, handled>>
  BY DEF ToggleOff, Cancelled
<1>6. Types'
  BY <1>1, <1>3, <1>4, <1>5, CancelledTypes, JobTypes DEF TInv, Types, TypeOK, telegram, doc
<1>7. StageInv'
  BY <1>1, <1>5, CancelledTypes DEF TInv, StageInv, Busy
<1> QED
  BY <1>6, <1>7 DEF TInv

LEMMA StopBeginsTypes ==
    ASSUME TInv, NEW s \in stops, StopBegins(s)
    PROVE  TInv'
<1>1. CASE Running
  <2>1. task \in Pollers /\ Cancelled(task)
    BY <1>1 DEF TInv, Types, TypeOK, StopBegins, Running
  <2>2. [s EXCEPT !.of = task] \in Stop
    BY <2>1, StopTypes DEF TInv, Types, TypeOK
  <2>3. stops' \subseteq Stop
    BY <1>1, <2>2 DEF TInv, Types, TypeOK, StopBegins
  <2>4. UNCHANGED <<scene, telegram, doc, pending, task, switched, offset, copy, handled>>
    BY <2>1 DEF StopBegins, Cancelled
  <2>5. Types'
    BY <2>1, <2>3, <2>4, CancelledTypes, JobTypes DEF TInv, Types, TypeOK, telegram, doc
  <2>6. StageInv'
    BY <2>1, <2>4, CancelledTypes DEF TInv, StageInv, Busy
  <2> QED
    BY <2>5, <2>6 DEF TInv
<1>2. CASE ~Running
  <2>1. /\ stops' = stops \ {s}
        /\ UNCHANGED <<scene, telegram, doc, pending, task, switched, polling, jobs>>
    BY <1>2 DEF StopBegins
  <2>2. Types'
    BY <2>1 DEF TInv, Types, TypeOK, telegram, doc, polling
  <2>3. StageInv'
    BY <2>1 DEF TInv, StageInv, polling
  <2> QED
    BY <2>2, <2>3 DEF TInv
<1> QED
  BY <1>1, <1>2

LEMMA StopEndsTypes ==
    ASSUME TInv, NEW s \in stops, StopEnds(s)
    PROVE  TInv'
<1>1. store' \in Doc
  <2>1. s.copy \in Doc
    BY StopTypes DEF TInv, Types, TypeOK
  <2> QED
    BY <2>1, DocTypes DEF TInv, Types, TypeOK, StopEnds
<1>2. Types'
  BY <1>1 DEF TInv, Types, TypeOK, StopEnds, telegram, polling
<1>3. StageInv'
  BY DEF TInv, StageInv, StopEnds, polling
<1> QED
  BY <1>2, <1>3 DEF TInv

LEMMA RestartTypes ==
    ASSUME TInv, Restart
    PROVE  TInv'
<1>1. store.on => FirstFresh \in Pollers
  BY FirstExists DEF Restart
<1>2. pc' \in [Pollers -> Stages] /\ task' \in Pollers \cup {None}
  BY <1>1 DEF Restart, Stages
<1>3. Blank \in Doc /\ Len(sent) \in Nat
  BY DocTypes DEF TInv, Types, TypeOK
<1>4. Types'
  BY <1>2, <1>3 DEF TInv, Types, TypeOK, Restart, telegram, doc, Waits
<1>5. StageInv'
  BY DEF TInv, StageInv, Busy, Restart
<1> QED
  BY <1>4, <1>5 DEF TInv

LEMMA StutterTypes ==
    ASSUME TInv, UNCHANGED vars
    PROVE  TInv'
BY DEF TInv, Types, TypeOK, StageInv, vars, telegram, doc, control, polling

\* The steps of one poller.
LEMMA BotStepTypes ==
    ASSUME TInv, NEW p \in Pollers, BotStep(p)
    PROVE  TInv'
<1>1. CASE Login(p) \/ LoginFails(p) \/ Closed(p)
  BY <1>1, MovesTypes DEF Login, LoginFails, Closed
<1>2. CASE Reply(p) \/ Raise(p)
  BY <1>2, OverTypes DEF Reply, Raise, Busy
<1> QED
  BY <1>1, <1>2, BeginTypes, AnswerTypes, StampTypes, CallTypes, ResumeTypes
  DEF BotStep

LEMMA NextTypes == TInv /\ [Next]_vars => TInv'
<1> SUFFICES ASSUME TInv, [Next]_vars PROVE TInv'
  OBVIOUS
<1> QED
  BY SendTypes, BotStepTypes, PollTakesTypes, PollLostTypes, WorkTypes,
     SaveSettingsTypes, ToggleOnTypes, ToggleOffTypes, StopBeginsTypes,
     StopEndsTypes, RestartTypes, StutterTypes
  DEF Next

LEMMA SpecTypes == Spec => []TInv
BY InitTypes, NextTypes, PTL DEF Spec

\* The bot never leaves its types, whatever is pressed, switched, lost or
\* restarted (telegram_bot.py, bot_services).
THEOREM BotTypeCorrect == Spec => []TypeOK
<1>1. TInv => TypeOK
  BY DEF TInv, Types
<1> QED
  BY <1>1, SpecTypes, PTL

-----------------------------------------------------------------------------
(* What becomes of an update *)

Active == Busy \cup {"login", "poll", "next"}

Done(k) == \E p \in Pollers : <<p, k>> \in handled

\* A poller that is not over has seen what lies before its offset handled, but
\* for the update it is at; what lies before an update of its batch is in the
\* batch or handled; and it has ended nothing from its offset on.
OrderInv ==
    \A p \in Pollers :
        /\ pc[p] \in Active => \A k \in 1..(offset[p] - 1) : k = now[p] \/ Done(k)
        /\ \A n \in rest[p] :
              /\ n >= offset[p]
              /\ \A k \in 1..(n - 1) : k \in rest[p] \/ k = now[p] \/ Done(k)
        /\ now[p] # 0 => now[p] < offset[p]
        /\ \A k \in Nat : <<p, k>> \in handled => k < offset[p] /\ k # now[p]

IInv == TInv /\ OrderInv /\ ConfirmedWasHandled

\* Steps that begin, end and fetch no update: pollers go on, or drop what they
\* have and are over; new ones come from "off".
Keeps ==
    /\ UNCHANGED <<confirmed, offset, handled>>
    /\ \A p \in Pollers :
         /\ pc'[p] \in Active => pc[p] \in Active \cup {"off"}
         /\ \/ rest'[p] = rest[p] /\ now'[p] = now[p]
            \/ rest'[p] = {} /\ now'[p] = 0 /\ pc'[p] \notin Active

LEMMA KeepsOrder ==
    ASSUME IInv, Keeps
    PROVE  OrderInv' /\ ConfirmedWasHandled'
<1>1. \A k : Done(k)' <=> Done(k)
  BY DEF Keeps, Done
<1>2. ASSUME NEW p \in Pollers
      PROVE  /\ pc'[p] \in Active
                  => \A k \in 1..(offset'[p] - 1) : k = now'[p] \/ Done(k)'
             /\ \A n \in rest'[p] :
                  /\ n >= offset'[p]
                  /\ \A k \in 1..(n - 1) : k \in rest'[p] \/ k = now'[p] \/ Done(k)'
             /\ now'[p] # 0 => now'[p] < offset'[p]
             /\ \A k \in Nat : <<p, k>> \in handled' => k < offset'[p] /\ k # now'[p]
  <2>1. /\ pc'[p] \in Active => pc[p] \in Active \cup {"off"}
        /\ offset' = offset /\ handled' = handled
    BY DEF Keeps
  <2>2. pc[p] = "off" => offset[p] = 0
    BY DEF IInv, TInv, StageInv
  <2>3. /\ pc[p] \in Active => \A k \in 1..(offset[p] - 1) : k = now[p] \/ Done(k)
        /\ \A n \in rest[p] :
              /\ n >= offset[p]
              /\ \A k \in 1..(n - 1) : k \in rest[p] \/ k = now[p] \/ Done(k)
        /\ now[p] # 0 => now[p] < offset[p]
        /\ \A k \in Nat : <<p, k>> \in handled => k < offset[p] /\ k # now[p]
    BY DEF IInv, OrderInv
  <2>4. CASE rest'[p] = rest[p] /\ now'[p] = now[p]
    BY <1>1, <2>1, <2>2, <2>3, <2>4 DEF Active
  <2>5. CASE rest'[p] = {} /\ now'[p] = 0 /\ pc'[p] \notin Active
    <3>1. \A k \in Nat : <<p, k>> \in handled' => k < offset'[p] /\ k # now'[p]
      <4>1. \A k \in Nat : <<p, k>> \in handled => k # 0
        BY DEF IInv, TInv, Types, TypeOK
      <4> QED
        BY <2>1, <2>3, <2>5, <4>1
    <3> QED
      BY <2>5, <3>1
  <2> QED
    BY <2>4, <2>5 DEF Keeps
<1>3. ConfirmedWasHandled'
  BY DEF IInv, Keeps, ConfirmedWasHandled
<1> QED
  BY <1>2, <1>3 DEF OrderInv

\* What getUpdates makes Telegram forget was handled: its offset is that of a
\* poller between two updates.
LEMMA ForgetsHandled ==
    ASSUME IInv, NEW p \in Pollers, pc[p] = "poll"
    PROVE  \A k \in 1..Confirmed(p) : Done(k)
<1>1. now[p] = 0
  BY DEF IInv, TInv, StageInv, Busy
<1>2. \A k \in 1..(offset[p] - 1) : Done(k)
  BY <1>1 DEF IInv, OrderInv, Active
<1>3. \A k \in 1..confirmed : Done(k)
  BY DEF IInv, ConfirmedWasHandled, Done
<1>4. offset[p] \in Nat /\ confirmed \in Nat
  BY PollTypes DEF IInv, TInv, Types, TypeOK
<1> QED
  BY <1>2, <1>3, <1>4 DEF Confirmed

LEMMA PollOrder ==
    ASSUME IInv, NEW p \in Pollers, Poll(p)
    PROVE  OrderInv' /\ ConfirmedWasHandled'
<1>1. pc[p] = "poll" /\ now[p] = 0 /\ confirmed' = Confirmed(p)
  BY DEF Poll, IInv, TInv, StageInv, Busy
<1>2. UNCHANGED <<offset, now, handled>> /\ \A k : Done(k)' <=> Done(k)
  BY DEF Poll, Done
<1>3. \A k \in 1..confirmed' : Done(k)
  BY <1>1, ForgetsHandled
<1>4. /\ pc'[p] \in {"poll", "next"} /\ rest'[p] = {n \in 1..Len(sent) : n > confirmed'}
      /\ \A q \in Pollers \ {p} : pc'[q] = pc[q] /\ rest'[q] = rest[q]
  BY DEF Poll, IInv, TInv, Types, TypeOK
<1>5. /\ confirmed' \in Nat /\ Len(sent) \in Nat /\ offset[p] \in Nat
      /\ confirmed' >= offset[p] - 1
  BY <1>1, ConfirmedTypes, PollTypes DEF IInv, TInv
<1>6. \A n \in rest'[p] : /\ n >= offset[p]
                          /\ \A k \in 1..(n - 1) : k \in rest'[p] \/ Done(k)
  BY <1>3, <1>4, <1>5
<1>7. OrderInv'
  <2>1. ASSUME NEW q \in Pollers \ {p}
        PROVE  /\ pc'[q] \in Active
                    => \A k \in 1..(offset'[q] - 1) : k = now'[q] \/ Done(k)'
               /\ \A n \in rest'[q] :
                    /\ n >= offset'[q]
                    /\ \A k \in 1..(n - 1) : k \in rest'[q] \/ k = now'[q] \/ Done(k)'
               /\ now'[q] # 0 => now'[q] < offset'[q]
               /\ \A k \in Nat : <<q, k>> \in handled' => k < offset'[q] /\ k # now'[q]
    BY <1>2, <1>4 DEF IInv, OrderInv
  <2>2. /\ pc'[p] \in Active
             => \A k \in 1..(offset'[p] - 1) : k = now'[p] \/ Done(k)'
        /\ \A n \in rest'[p] :
             /\ n >= offset'[p]
             /\ \A k \in 1..(n - 1) : k \in rest'[p] \/ k = now'[p] \/ Done(k)'
        /\ now'[p] # 0 => now'[p] < offset'[p]
        /\ \A k \in Nat : <<p, k>> \in handled' => k < offset'[p] /\ k # now'[p]
    BY <1>1, <1>2, <1>6 DEF IInv, OrderInv, Active
  <2> QED
    BY <2>1, <2>2 DEF OrderInv
<1> QED
  BY <1>2, <1>3, <1>7 DEF ConfirmedWasHandled, Done

LEMMA PollLostOrder ==
    ASSUME IInv, NEW p \in Pollers, PollLost(p)
    PROVE  OrderInv' /\ ConfirmedWasHandled'
<1>1. pc[p] = "poll" /\ confirmed' = Confirmed(p) /\ UNCHANGED polling
  BY DEF PollLost
<1>2. OrderInv'
  BY <1>1 DEF IInv, OrderInv, Done, polling
<1> QED
  BY <1>1, <1>2, ForgetsHandled DEF ConfirmedWasHandled, Done, polling

\* The update that is begun is the next one, and was not begun before.
LEMMA BeginsNext ==
    ASSUME IInv, NEW p \in Pollers, Begin(p)
    PROVE  \E n \in rest[p] :
             /\ now' = [now EXCEPT ![p] = n]
             /\ offset' = [offset EXCEPT ![p] = n + 1]
             /\ rest' = [rest EXCEPT ![p] = @ \ {n}]
             /\ \A k \in rest[p] : n <= k
             /\ n \in 1..Len(sent) /\ n >= offset[p] /\ now[p] = 0
             /\ \A k \in 1..(n - 1) : Done(k)
             /\ <<p, n>> \notin handled
             /\ \A q \in Pollers \ {p} : pc'[q] = pc[q]
<1>1. PICK n \in rest[p] :
        /\ \A k \in rest[p] : n <= k
        /\ now' = [now EXCEPT ![p] = n]
        /\ offset' = [offset EXCEPT ![p] = AfterUpdate(p, n)]
        /\ rest' = [rest EXCEPT ![p] = @ \ {n}]
        /\ IF sent[n].kind \in Buttons
           THEN /\ pc' = [pc EXCEPT ![p] = "answer"]
                /\ UNCHANGED <<pending, todo, copy, jobs>>
           ELSE Handle(p, sent[n])
  BY DEF Begin
<1>2. n \in 1..Len(sent) /\ sent[n] \in Msg
  BY <1>1, PollTypes DEF IInv, TInv
<1>3. now[p] = 0
  BY DEF IInv, TInv, StageInv, Busy, Begin
<1>4. n >= offset[p] /\ \A k \in 1..(n - 1) : k \in rest[p] \/ k = now[p] \/ Done(k)
  BY DEF IInv, OrderInv
<1>5. \A k \in 1..(n - 1) : Done(k)
  BY <1>1, <1>2, <1>3, <1>4
<1>6. <<p, n>> \notin handled
  <2>1. offset[p] \in Nat
    BY PollTypes DEF IInv, TInv
  <2>2. <<p, n>> \in handled => n < offset[p]
    BY <1>2 DEF IInv, OrderInv
  <2> QED
    BY <1>2, <1>4, <2>1, <2>2
<1>7. \A q \in Pollers \ {p} : pc'[q] = pc[q]
  <2>1. CASE sent[n].kind \in Buttons
    BY <1>1, <2>1 DEF IInv, TInv, Types, TypeOK
  <2>2. CASE sent[n].kind \notin Buttons
    BY <1>1, <1>2, <2>2, HandleTypes DEF IInv, TInv
  <2> QED
    BY <2>1, <2>2
<1> QED
  BY <1>1, <1>2, <1>3, <1>4, <1>5, <1>6, <1>7 DEF AfterUpdate

LEMMA BeginOrder ==
    ASSUME IInv, NEW p \in Pollers, Begin(p)
    PROVE  OrderInv' /\ ConfirmedWasHandled'
<1>1. PICK n \in rest[p] :
             /\ now' = [now EXCEPT ![p] = n]
             /\ offset' = [offset EXCEPT ![p] = n + 1]
             /\ rest' = [rest EXCEPT ![p] = @ \ {n}]
             /\ \A k \in rest[p] : n <= k
             /\ n \in 1..Len(sent) /\ n >= offset[p] /\ now[p] = 0
             /\ \A k \in 1..(n - 1) : Done(k)
             /\ <<p, n>> \notin handled
             /\ \A q \in Pollers \ {p} : pc'[q] = pc[q]
  BY BeginsNext
<1>2. UNCHANGED <<confirmed, handled>> /\ \A k : Done(k)' <=> Done(k)
  BY DEF Begin, Done, telegram
<1>3. /\ now'[p] = n /\ offset'[p] = n + 1 /\ rest'[p] = rest[p] \ {n}
      /\ \A q \in Pollers \ {p} : /\ now'[q] = now[q] /\ offset'[q] = offset[q]
                                 /\ rest'[q] = rest[q] /\ pc'[q] = pc[q]
  BY <1>1 DEF IInv, TInv, Types, TypeOK
<1>4. n \in Nat \ {0} /\ offset[p] \in Nat /\ rest[p] \subseteq Nat
  BY <1>1, PollTypes DEF IInv, TInv
<1>5. /\ \A k \in 1..(offset'[p] - 1) : k = now'[p] \/ Done(k)'
      /\ \A m \in rest'[p] :
           /\ m >= offset'[p]
           /\ \A k \in 1..(m - 1) : k \in rest'[p] \/ k = now'[p] \/ Done(k)'
      /\ now'[p] < offset'[p]
  <2>1. \A k \in 1..(offset'[p] - 1) : k = now'[p] \/ Done(k)'
    BY <1>1, <1>2, <1>3, <1>4
  <2>2. \A m \in rest'[p] : m >= offset'[p]
    BY <1>1, <1>3, <1>4
  <2>3. \A m \in rest[p] : \A k \in 1..(m - 1) : k \in rest[p] \/ k = now[p] \/ Done(k)
    BY DEF IInv, OrderInv
  <2>4. \A m \in rest'[p] : \A k \in 1..(m - 1) : k \in rest'[p] \/ k = now'[p] \/ Done(k)'
    BY <1>1, <1>2, <1>3, <1>4, <2>3
  <2> QED
    BY <1>3, <1>4, <2>1, <2>2, <2>4
<1>6. \A k \in Nat : <<p, k>> \in handled' => k < offset'[p] /\ k # now'[p]
  <2>1. \A k \in Nat : <<p, k>> \in handled => k < offset[p]
    BY DEF IInv, OrderInv
  <2> QED
    BY <1>1, <1>2, <1>3, <1>4, <2>1
<1>7. OrderInv'
  BY <1>2, <1>3, <1>5, <1>6 DEF IInv, OrderInv
<1> QED
  BY <1>2, <1>7 DEF IInv, ConfirmedWasHandled

LEMMA OverOrder ==
    ASSUME IInv, NEW p \in Pollers, Over(p), pc[p] \in Busy
    PROVE  OrderInv' /\ ConfirmedWasHandled'
<1>1. now[p] \in 1..Len(sent)
  BY PollTypes DEF IInv, TInv, StageInv
<1>2. /\ now'[p] = 0 /\ pc'[p] \in Active
      /\ \A q \in Pollers \ {p} : now'[q] = now[q] /\ pc'[q] = pc[q]
      /\ UNCHANGED <<rest, offset, confirmed>>
      /\ handled' = handled \cup {<<p, now[p]>>}
  BY DEF Over, IInv, TInv, Types, TypeOK, Active, telegram
<1>3. \A k : Done(k) \/ k = now[p] => Done(k)'
  BY <1>2 DEF Done
<1>4. ASSUME NEW q \in Pollers
      PROVE  /\ pc'[q] \in Active
                  => \A k \in 1..(offset'[q] - 1) : k = now'[q] \/ Done(k)'
             /\ \A n \in rest'[q] :
                  /\ n >= offset'[q]
                  /\ \A k \in 1..(n - 1) : k \in rest'[q] \/ k = now'[q] \/ Done(k)'
             /\ now'[q] # 0 => now'[q] < offset'[q]
             /\ \A k \in Nat : <<q, k>> \in handled' => k < offset'[q] /\ k # now'[q]
  <2>1. /\ pc[q] \in Active => \A k \in 1..(offset[q] - 1) : k = now[q] \/ Done(k)
        /\ \A n \in rest[q] :
              /\ n >= offset[q]
              /\ \A k \in 1..(n - 1) : k \in rest[q] \/ k = now[q] \/ Done(k)
        /\ now[q] # 0 => now[q] < offset[q]
        /\ \A k \in Nat : <<q, k>> \in handled => k < offset[q] /\ k # now[q]
    BY DEF IInv, OrderInv
  <2>2. \A k \in Nat : <<q, k>> \in handled => k # 0
    BY DEF IInv, TInv, Types, TypeOK
  <2>3. CASE q = p
    BY <1>1, <1>2, <1>3, <2>1, <2>2, <2>3 DEF Active
  <2>4. CASE q # p
    <3>1. /\ now'[q] = now[q] /\ pc'[q] = pc[q] /\ rest'[q] = rest[q]
          /\ offset'[q] = offset[q]
          /\ \A k : <<q, k>> \in handled' <=> <<q, k>> \in handled
      BY <1>2, <2>4
    <3> QED
      BY <1>3, <2>1, <3>1
  <2> QED
    BY <2>3, <2>4
<1>5. OrderInv'
  BY <1>4 DEF OrderInv
<1>6. ConfirmedWasHandled'
  BY <1>2 DEF IInv, ConfirmedWasHandled
<1> QED
  BY <1>5, <1>6
\* Only the poller p goes on, or is over.
LEMMA OneKeeps ==
    ASSUME NEW p \in Pollers,
           UNCHANGED <<confirmed, offset, rest, now, handled>>,
           \A q \in Pollers \ {p} : pc'[q] = pc[q],
           pc'[p] \in Active => pc[p] \in Active \cup {"off"}
    PROVE  Keeps
BY DEF Keeps

LEMMA NoneKeeps ==
    ASSUME UNCHANGED <<confirmed, polling>>
    PROVE  Keeps
BY DEF Keeps, polling

LEMMA HandlerKeeps ==
    ASSUME IInv, NEW p \in Pollers, Answer(p) \/ Stamp(p) \/ Call(p) \/ Resume(p)
    PROVE  Keeps
<1>1. pc[p] \in Busy /\ UNCHANGED <<confirmed, offset, rest, now, handled>>
  BY DEF Answer, Stamp, Call, Resume, Busy, telegram
<1>2. \A q \in Pollers \ {p} : pc'[q] = pc[q]
  <2>1. CASE Answer(p)
    <3>1. now[p] # 0
      BY <1>1 DEF IInv, TInv, StageInv
    <3>2. MsgOf(p) \in Msg
      BY <3>1, PollTypes DEF IInv, TInv, MsgOf
    <3> QED
      BY <2>1, <3>2, HandleTypes DEF IInv, TInv, Answer
  <2>2. CASE Stamp(p)
    <3>1. todo[p] \subseteq TJob
      BY PollTypes DEF IInv, TInv
    <3> QED
      BY <2>2, <3>1, CallsTypes DEF IInv, TInv, Stamp
  <2>3. CASE Call(p)
    BY <2>3 DEF IInv, TInv, Types, TypeOK, Call
  <2>4. CASE Resume(p)
    <3>1. \/ UNCHANGED pc \/ StampFirst(p, {})
          \/ pc' = [pc EXCEPT ![p] = "reply"]
      BY <2>4 DEF Resume
    <3> QED
      BY <3>1 DEF IInv, TInv, Types, TypeOK, StampFirst
  <2> QED
    BY <1>1, <2>1, <2>2, <2>3, <2>4
<1> QED
  BY <1>1, <1>2, OneKeeps DEF Active

LEMMA MovesKeeps ==
    ASSUME IInv, NEW p \in Pollers, Login(p) \/ LoginFails(p) \/ Closed(p)
    PROVE  Keeps
<1>1. UNCHANGED <<confirmed, offset, rest, now, handled>>
  BY DEF Login, LoginFails, Closed, Moves, telegram
<1>2. PICK a, b \in Stages : Moves(p, a, b) /\ (b \in Active => a \in Active)
  BY DEF Login, LoginFails, Closed, Active, Busy, Stages
<1>3. pc[p] = a /\ pc'[p] = b /\ \A q \in Pollers \ {p} : pc'[q] = pc[q]
  BY <1>2 DEF IInv, TInv, Types, TypeOK, Moves
<1> QED
  BY <1>1, <1>2, <1>3, OneKeeps

LEMMA LaunchKeeps ==
    ASSUME IInv, Launches, UNCHANGED <<confirmed, offset, rest, now, handled>>
    PROVE  Keeps
<1>1. /\ FirstFresh \in Pollers /\ pc[FirstFresh] = "off"
      /\ \A q \in Pollers \ {FirstFresh} : pc'[q] = pc[q]
  BY LaunchesTypes DEF IInv
<1> HIDE DEF Pollers
<1> QED
  BY <1>1, OneKeeps

LEMMA CancelKeeps ==
    ASSUME IInv, NEW p \in Pollers, Cancelled(p), UNCHANGED confirmed
    PROVE  Keeps
<1>1. UNCHANGED <<offset, handled>>
  BY DEF Cancelled
<1>2. /\ pc'[p] = "closing" /\ now'[p] = 0 /\ rest'[p] = {}
      /\ \A q \in Pollers \ {p} : /\ pc'[q] = pc[q] /\ now'[q] = now[q]
                                 /\ rest'[q] = rest[q]
  BY CancelledTypes DEF IInv
<1> QED
  BY <1>1, <1>2 DEF Keeps, Active, Busy

\* The settings pages, stop_bot and the restart.
LEMMA ControlKeeps ==
    ASSUME IInv,
           \/ \E on \in BOOLEAN : SaveSettings(on)
           \/ ToggleOn \/ ToggleOff
           \/ \E s \in stops : StopBegins(s) \/ StopEnds(s)
           \/ Restart
    PROVE  Keeps
<1>1. ASSUME NEW on \in BOOLEAN, SaveSettings(on) PROVE Keeps
  <2>1. UNCHANGED <<confirmed, offset, rest, now, handled>>
    BY <1>1 DEF SaveSettings, telegram
  <2>2. CASE Launches
    BY <2>1, <2>2, LaunchKeeps
  <2>3. CASE UNCHANGED <<pc, task>>
    BY <2>1, <2>3 DEF Keeps
  <2> QED
    BY <1>1, <2>2, <2>3 DEF SaveSettings
<1>2. CASE ToggleOn
  BY <1>2, LaunchKeeps DEF ToggleOn, telegram
<1>3. CASE ToggleOff
  <2>1. task \in Pollers
    BY <1>3 DEF IInv, TInv, Types, TypeOK, ToggleOff, Running
  <2> QED
    BY <1>3, <2>1, CancelKeeps DEF ToggleOff, telegram
<1>4. ASSUME NEW s \in stops, StopBegins(s) PROVE Keeps
  <2>1. CASE Running
    <3>1. task \in Pollers
      BY <2>1 DEF IInv, TInv, Types, TypeOK, Running
    <3> QED
      BY <1>4, <2>1, <3>1, CancelKeeps DEF StopBegins, telegram
  <2>2. CASE ~Running
    BY <1>4, <2>2, NoneKeeps DEF StopBegins, telegram
  <2> QED
    BY <2>1, <2>2
<1>5. ASSUME NEW s \in stops, StopEnds(s) PROVE Keeps
  BY <1>5, NoneKeeps DEF StopEnds, telegram
<1>6. CASE Restart
  <2>1. UNCHANGED <<confirmed, offset, handled>>
    BY <1>6 DEF Restart, telegram
  <2>2. ASSUME NEW p \in Pollers
        PROVE  /\ pc'[p] \in Active => pc[p] = "off"
               /\ \/ rest'[p] = rest[p] /\ now'[p] = now[p]
                  \/ rest'[p] = {} /\ now'[p] = 0 /\ pc'[p] \notin Active
    <3>1. rest'[p] = {} /\ now'[p] = 0
      BY <1>6 DEF Restart
    <3>2. CASE pc[p] = "off"
      <4>1. rest[p] = {} /\ (pc[p] \in Busy <=> now[p] # 0)
        BY <3>2 DEF IInv, TInv, StageInv, Busy
      <4> QED
        BY <3>1, <3>2, <4>1 DEF Busy
    <3>3. CASE pc[p] # "off"
      <4>1. pc'[p] = "done"
        BY <1>6, <3>3 DEF Restart
      <4> QED
        BY <3>1, <4>1 DEF Active, Busy
    <3> QED
      BY <3>2, <3>3
  <2> QED
    BY <2>1, <2>2 DEF Keeps
<1> QED
  BY <1>1, <1>2, <1>3, <1>4, <1>5, <1>6

LEMMA InitOrder == Init => IInv
<1> SUFFICES ASSUME Init PROVE OrderInv /\ ConfirmedWasHandled
  BY InitTypes DEF IInv
<1> QED
  BY DEF Init, OrderInv, ConfirmedWasHandled

LEMMA NextOrder == IInv /\ [Next]_vars => IInv'
<1> SUFFICES ASSUME IInv, [Next]_vars PROVE OrderInv' /\ ConfirmedWasHandled'
  BY NextTypes DEF IInv
<1>1. ASSUME NEW m \in Msg, Send(m) PROVE OrderInv' /\ ConfirmedWasHandled'
  BY <1>1, NoneKeeps, KeepsOrder DEF Send
<1>2. ASSUME NEW p \in Pollers, BotStep(p) PROVE OrderInv' /\ ConfirmedWasHandled'
  <2>1. CASE Begin(p)
    BY <2>1, BeginOrder
  <2>2. CASE Reply(p) \/ Raise(p)
    BY <2>2, OverOrder DEF Reply, Raise, Busy
  <2>3. CASE Answer(p) \/ Stamp(p) \/ Call(p) \/ Resume(p)
    BY <2>3, HandlerKeeps, KeepsOrder
  <2>4. CASE Login(p) \/ LoginFails(p) \/ Closed(p)
    BY <2>4, MovesKeeps, KeepsOrder
  <2> QED
    BY <1>2, <2>1, <2>2, <2>3, <2>4 DEF BotStep
<1>3. ASSUME NEW j \in jobs, Work(j) PROVE OrderInv' /\ ConfirmedWasHandled'
  BY <1>3, NoneKeeps, KeepsOrder DEF Work, telegram
<1>4. CASE UNCHANGED vars
  BY <1>4, NoneKeeps, KeepsOrder DEF vars, telegram
<1> QED
  BY <1>1, <1>2, <1>3, <1>4, PollOrder, PollLostOrder, ControlKeeps, KeepsOrder
  DEF Next

LEMMA SpecOrder == Spec => []IInv
BY InitOrder, NextOrder, PTL DEF Spec

\* Telegram never forgets an update whose handler has not ended by itself, with
\* any number of updates, restarts and switches: the offset that _run_bot asks
\* with is past an update only once _dispatch is over.
THEOREM BotConfirmedWasHandled == Spec => []ConfirmedWasHandled
<1>1. IInv => ConfirmedWasHandled
  BY DEF IInv
<1> QED
  BY <1>1, SpecOrder, PTL

\* No step but Begin gives a poller an update.
LEMMA OnlyBegins ==
    ASSUME IInv, Next, NEW p \in Pollers, now'[p] # now[p], now'[p] # 0
    PROVE  <<p, now'[p]>> \notin handled
<1>1. ASSUME Keeps PROVE FALSE
  BY <1>1 DEF Keeps
<1>2. CASE \E q \in Pollers : Begin(q)
  <2>1. PICK q \in Pollers : Begin(q)
    BY <1>2
  <2>2. PICK n \in rest[q] : now' = [now EXCEPT ![q] = n] /\ <<q, n>> \notin handled
    BY <2>1, BeginsNext
  <2> QED
    BY <2>2 DEF IInv, TInv, Types, TypeOK
<1>3. CASE \E q \in Pollers : Over(q)
  BY <1>3 DEF Over, IInv, TInv, Types, TypeOK
<1>4. CASE \E q \in Pollers : Poll(q) \/ PollLost(q)
  BY <1>4 DEF Poll, PollLost, polling
<1>5. ASSUME NEW m \in Msg, Send(m) PROVE FALSE
  BY <1>1, <1>5, NoneKeeps DEF Send
<1>6. ASSUME NEW j \in jobs, Work(j) PROVE FALSE
  BY <1>1, <1>6, NoneKeeps DEF Work, telegram
<1>7. ASSUME NEW q \in Pollers, BotStep(q) PROVE <<p, now'[p]>> \notin handled
  <2>1. CASE Reply(q) \/ Raise(q)
    BY <1>3, <2>1 DEF Reply, Raise
  <2>2. CASE Answer(q) \/ Stamp(q) \/ Call(q) \/ Resume(q)
    BY <1>1, <2>2, HandlerKeeps
  <2>3. CASE Login(q) \/ LoginFails(q) \/ Closed(q)
    BY <1>1, <2>3, MovesKeeps
  <2> QED
    BY <1>2, <1>7, <2>1, <2>2, <2>3 DEF BotStep
<1> QED
  BY <1>1, <1>4, <1>5, <1>6, <1>7, ControlKeeps DEF Next

\* One run of _run_bot begins no update twice, whatever Telegram returns again
\* after a lost answer: what it ended lies before its offset.
THEOREM BotEachRunOnce == Spec => EachRunOnce
<1>1. IInv /\ [Next]_vars =>
        [\A p \in Pollers :
          (now'[p] # now[p] /\ now'[p] # 0) => <<p, now'[p]>> \notin handled]_vars
  BY OnlyBegins
<1> QED
  BY <1>1, SpecOrder, PTL DEF Spec, EachRunOnce

-----------------------------------------------------------------------------
(* The account of a chat *)

Single == {d \in Doc : OneAccount(d)}
SJob == {j \in TJob : j.copy \in Single}

\* Not only the document, every copy that may yet be saved has one account for
\* a chat: those of threads, of stamps and of stops.
Accounts ==
    /\ store \in Single
    /\ copy \in [Pollers -> Single]
    /\ jobs \subseteq SJob /\ todo \in [Pollers -> SUBSET SJob]
    /\ \A s \in stops : s.copy \in Single

AInv == TInv /\ Accounts

\* What leaves the users as they are leaves them single; and so does a user of
\* a chat that has none.
LEMMA SingleDocs ==
    /\ Blank \in Single
    /\ \A d \in Single : d \in Doc /\ OneAccount(d)
    /\ \A d \in Single, cs \in SUBSET ConnRec : [d EXCEPT !.conns = cs] \in Single
    /\ \A d \in Single, b \in BOOLEAN : [d EXCEPT !.on = b] \in Single
    /\ \A d \in Single, u \in UserRec :
         UsersOf(d, u.chat) = {} => [d EXCEPT !.users = @ \cup {u}] \in Single
<1>1. Blank \in Single
  BY DocTypes DEF Single, OneAccount
<1>2. \A d \in Single : d \in Doc /\ OneAccount(d)
  BY DEF Single
<1>3. ASSUME NEW d \in Single, NEW cs \in SUBSET ConnRec
      PROVE  [d EXCEPT !.conns = cs] \in Single
  BY <1>2, DocTypes DEF Single, OneAccount
<1>4. ASSUME NEW d \in Single, NEW b \in BOOLEAN
      PROVE  [d EXCEPT !.on = b] \in Single
  BY <1>2, DocTypes DEF Single, OneAccount
<1>5. ASSUME NEW d \in Single, NEW u \in UserRec, UsersOf(d, u.chat) = {}
      PROVE  [d EXCEPT !.users = @ \cup {u}] \in Single
  <2> DEFINE e == [d EXCEPT !.users = @ \cup {u}]
  <2>1. d.users \cup {u} \in SUBSET UserRec
    BY <1>2, DocTypes
  <2>2. e \in Doc /\ e.users = d.users \cup {u}
    BY <1>2, <2>1, DocTypes
  <2>3. \A v \in d.users : v.chat # u.chat
    BY <1>5 DEF UsersOf
  <2>4. \A v, w \in d.users : v.chat = w.chat => v = w
    BY <1>2 DEF OneAccount
  <2> HIDE DEF e
  <2>5. OneAccount(e)
    BY <2>2, <2>3, <2>4 DEF OneAccount
  <2> QED
    BY <2>2, <2>5 DEF Single, e
<1> QED
  BY <1>1, <1>2, <1>3, <1>4, <1>5

LEMMA SingleJobs ==
    /\ \A j \in SJob : j \in TJob /\ j.copy \in Single
    /\ \A j \in SJob, s \in Steps \ {"remote"}, d \in Single :
         [j EXCEPT !.step = s, !.copy = d] \in SJob
    /\ \A j \in SJob : j.do # "create" => [j EXCEPT !.step = "remote"] \in SJob
    /\ \A j \in SJob, c \in Conns :
         j.user \in Ids => [j EXCEPT !.step = "remote", !.conn = c] \in SJob
    /\ \A j \in SJob : [j EXCEPT !.do = "touch", !.step = "called"] \in SJob
<1>1. \A j \in SJob : j \in TJob /\ j.copy \in Single
  BY DEF SJob
<1>2. ASSUME NEW j \in SJob, NEW s \in Steps \ {"remote"}, NEW d \in Single
      PROVE  [j EXCEPT !.step = s, !.copy = d] \in SJob
  <2>1. j \in TJob /\ d \in Doc
    BY <1>1, SingleDocs
  <2>2. /\ [j EXCEPT !.step = s, !.copy = d] \in TJob
        /\ [j EXCEPT !.step = s, !.copy = d].copy = d
    <3>1. \A k \in TJob, t \in Steps \ {"remote"}, e \in Doc :
            /\ [k EXCEPT !.step = t, !.copy = e] \in TJob
            /\ [k EXCEPT !.step = t, !.copy = e].copy = e
      BY JobTypes
    <3> QED
      BY <2>1, <3>1
  <2> QED
    BY <2>2 DEF SJob
<1>3. ASSUME NEW j \in SJob, j.do # "create"
      PROVE  [j EXCEPT !.step = "remote"] \in SJob
  BY <1>1, <1>3, JobTypes DEF SJob
<1>4. ASSUME NEW j \in SJob, NEW c \in Conns, j.user \in Ids
      PROVE  [j EXCEPT !.step = "remote", !.conn = c] \in SJob
  BY <1>1, <1>4, JobTypes DEF SJob
<1>5. ASSUME NEW j \in SJob
      PROVE  [j EXCEPT !.do = "touch", !.step = "called"] \in SJob
  BY <1>1, JobTypes DEF SJob
<1> QED
  BY <1>1, <1>2, <1>3, <1>4, <1>5

LEMMA InitAccounts == Init => AInv
<1> SUFFICES ASSUME Init PROVE Accounts
  BY InitTypes DEF AInv
<1>1. store \in Single
  BY DEF Init, Single, Scene
<1> QED
  BY <1>1, SingleDocs DEF Init, Accounts

\* The part of a handler before its next await.
LEMMA CallsAccounts ==
    ASSUME AInv, NEW p \in Pollers, NEW js \in SUBSET SJob, Calls(p, js)
    PROVE  jobs' \subseteq SJob /\ todo' \in [Pollers -> SUBSET SJob]
BY DEF AInv, Accounts, Calls

LEMMA StampFirstAccounts ==
    ASSUME AInv, NEW p \in Pollers, NEW js \in SUBSET SJob, StampFirst(p, js)
    PROVE  copy' \in [Pollers -> Single] /\ todo' \in [Pollers -> SUBSET SJob]
BY DEF AInv, Accounts, StampFirst

LEMMA HandleAccounts ==
    ASSUME AInv, NEW p \in Pollers, NEW m \in Msg, Handle(p, m)
    PROVE  /\ jobs' \subseteq SJob /\ todo' \in [Pollers -> SUBSET SJob]
           /\ copy' \in [Pollers -> Single]
<1> DEFINE js == Jobs(p, m, Asks(m, pending[m.chat], Known(m.chat)))
<1>1. js \subseteq SJob
  BY HandlerJobs, SingleDocs DEF AInv, TInv, SJob
<1>2. \/ StampFirst(p, js) /\ UNCHANGED jobs
      \/ Calls(p, js) /\ UNCHANGED copy
  BY DEF Handle
<1> HIDE DEF js
<1> QED
  BY <1>1, <1>2, StampFirstAccounts, CallsAccounts DEF AInv, Accounts

LEMMA HandlerAccounts ==
    ASSUME AInv, NEW p \in Pollers, Begin(p) \/ Answer(p) \/ Stamp(p) \/ Call(p)
    PROVE  Accounts'
<1>1. CASE Begin(p)
  <2>1. PICK n \in rest[p] :
           IF sent[n].kind \in Buttons
           THEN UNCHANGED <<pending, todo, copy, jobs>>
           ELSE Handle(p, sent[n])
    BY <1>1 DEF Begin
  <2>2. sent[n] \in Msg /\ UNCHANGED <<store, stops>>
    BY <1>1, <2>1, PollTypes DEF AInv, TInv, Begin, doc, control
  <2> QED
    BY <2>1, <2>2, HandleAccounts DEF AInv, Accounts
<1>2. CASE Answer(p)
  <2>1. now[p] # 0
    BY <1>2 DEF AInv, TInv, StageInv, Busy, Answer
  <2>2. MsgOf(p) \in Msg
    BY <2>1, PollTypes DEF AInv, TInv, MsgOf
  <2> QED
    BY <1>2, <2>2, HandleAccounts DEF AInv, Accounts, Answer, doc, control
<1>3. CASE Stamp(p)
  <2>1. todo[p] \subseteq SJob /\ copy[p] \in Single
    BY DEF AInv, Accounts
  <2> QED
    BY <1>3, <2>1, CallsAccounts, SingleDocs DEF AInv, Accounts, Stamp, control
<1>4. CASE Call(p)
  <2>1. todo[p] \subseteq SJob
    BY DEF AInv, Accounts
  <2> QED
    BY <1>4, <2>1 DEF AInv, Accounts, Call, doc, control
<1> QED
  BY <1>1, <1>2, <1>3, <1>4

LEMMA ResumeAccounts ==
    ASSUME AInv, NEW p \in Pollers, Resume(p)
    PROVE  Accounts'
<1>1. PICK j \in jobs :
        /\ \/ jobs' = (jobs \ {j}) \cup {[j EXCEPT !.do = "touch", !.step = "called"]}
           \/ jobs' = jobs \ {j}
        /\ StampFirst(p, {}) \/ UNCHANGED <<copy, todo>>
  BY DEF Resume
<1>2. jobs' \subseteq SJob
  <2>1. j \in SJob /\ jobs \subseteq SJob
    BY DEF AInv, Accounts
  <2>2. [j EXCEPT !.do = "touch", !.step = "called"] \in SJob
    BY <2>1, SingleJobs, Zenon
  <2> QED
    BY <1>1, <2>1, <2>2
<1> QED
  BY <1>1, <1>2, StampFirstAccounts DEF AInv, Accounts, Resume, doc, control

LEMMA OverAccounts ==
    ASSUME AInv, NEW p \in Pollers, Over(p)
    PROVE  Accounts'
BY DEF AInv, Accounts, Over, doc, control

\* Threads.
LEMMA EndsAccounts ==
    ASSUME AInv, NEW j \in jobs, NEW s \in Steps \ {"remote"}, Ends(j, s)
    PROVE  jobs' \subseteq SJob
<1>1. [j EXCEPT !.step = s, !.copy = Blank] \in SJob
  BY SingleDocs, SingleJobs DEF AInv, Accounts
<1> QED
  BY <1>1 DEF AInv, Accounts, Ends

LEMMA LoadsAccounts ==
    ASSUME AInv, NEW j \in jobs, NEW d \in Single, Loads(j, d)
    PROVE  jobs' \subseteq SJob
<1>1. [j EXCEPT !.step = "loaded", !.copy = d] \in SJob
  BY SingleJobs DEF AInv, Accounts, Steps
<1> QED
  BY <1>1 DEF AInv, Accounts, Loads, Turns

LEMMA SavesAccounts ==
    ASSUME AInv, NEW j \in jobs, Saves(j)
    PROVE  jobs' \subseteq SJob /\ store' \in Single
BY EndsAccounts, SingleJobs DEF AInv, Accounts, Saves, Saved, Steps

\* The user is new to the copy that gets it: what makes the chat's account one,
\* whoever saves before or after.
LEMMA RegisterAccounts ==
    ASSUME AInv, NEW j \in jobs, Register(j)
    PROVE  jobs' \subseteq SJob /\ store' \in Single
<1>1. CASE Saves(j)
  BY <1>1, SavesAccounts
<1>2. CASE (Ends(j, "already") \/ Ends(j, "refused")) /\ UNCHANGED doc
  BY <1>2, EndsAccounts DEF AInv, Accounts, Steps, doc
<1>3. ASSUME NEW i \in Ids \ used, ~Known(j.chat), UNCHANGED store,
             Loads(j, [store EXCEPT !.users = @ \cup {[id |-> i, chat |-> j.chat]}])
      PROVE  jobs' \subseteq SJob /\ store' \in Single
  <2> DEFINE u == [id |-> i, chat |-> j.chat]
  <2>1. j.chat \in Chats /\ store \in Single
    BY SingleJobs, JobTypes DEF AInv, Accounts
  <2>2. u \in UserRec /\ u.chat = j.chat
    BY <2>1 DEF UserRec
  <2>3. UsersOf(store, u.chat) = {}
    BY <1>3, <2>2 DEF Known
  <2>4. [store EXCEPT !.users = @ \cup {u}] \in Single
    BY <2>1, <2>2, <2>3, SingleDocs
  <2> QED
    BY <1>3, <2>1, <2>4, LoadsAccounts
<1> QED
  BY <1>1, <1>2, <1>3 DEF Register

LEMMA OtherAccounts ==
    ASSUME AInv, NEW j \in jobs,
           \/ j.do = "create" /\ Create(j)
           \/ j.do = "delete" /\ Delete(j)
           \/ Touch(j) \/ Read(j)
    PROVE  jobs' \subseteq SJob /\ store' \in Single
<1>1. j \in SJob /\ j \in TJob /\ store \in Single /\ store \in Doc
  BY SingleJobs, SingleDocs DEF AInv, Accounts
<1>2. CASE Saves(j)
  BY <1>2, SavesAccounts
<1>3. CASE (Ends(j, "done") \/ Ends(j, "refused")) /\ UNCHANGED store
  BY <1>1, <1>3, EndsAccounts DEF Steps
<1>4. ASSUME NEW k \in SJob, Turns(j, k), UNCHANGED store
      PROVE  jobs' \subseteq SJob /\ store' \in Single
  BY <1>1, <1>4 DEF AInv, Accounts, Turns
<1>5. ASSUME NEW cs \in SUBSET ConnRec, UNCHANGED store,
             Loads(j, [store EXCEPT !.conns = cs])
      PROVE  jobs' \subseteq SJob /\ store' \in Single
  BY <1>1, <1>5, SingleDocs, LoadsAccounts
<1>6. CASE j.do = "create" /\ Create(j)
  <2>1. ASSUME NEW c \in Conns \ used, HasUser(store, j.user), UNCHANGED store,
               Turns(j, [j EXCEPT !.step = "remote", !.conn = c])
        PROVE  jobs' \subseteq SJob /\ store' \in Single
    <3>1. j.user \in Ids
      BY <1>1, <2>1, DocTypes DEF HasUser, UserRec
    <3>2. [j EXCEPT !.step = "remote", !.conn = c] \in SJob
      BY <1>1, <3>1, SingleJobs
    <3> QED
      BY <1>4, <2>1, <3>2
  <2>2. CASE /\ j.step = "remote" /\ UNCHANGED doc
             /\ Loads(j, [store EXCEPT !.conns = @ \cup {[id |-> j.conn, user |-> j.user]}])
    <3>1. [id |-> j.conn, user |-> j.user] \in ConnRec
      BY <1>1, <1>6, <2>2 DEF TJob, ConnRec
    <3>2. store.conns \cup {[id |-> j.conn, user |-> j.user]} \in SUBSET ConnRec
      BY <1>1, <3>1, DocTypes
    <3> QED
      BY <1>5, <2>2, <3>2 DEF doc
  <2> QED
    BY <1>2, <1>3, <1>6, <2>1, <2>2 DEF Create
<1>7. CASE j.do = "delete" /\ Delete(j)
  <2>1. [j EXCEPT !.step = "remote"] \in SJob
    BY <1>1, <1>7, SingleJobs
  <2>2. {c \in store.conns : c.id # j.conn} \in SUBSET ConnRec
    BY <1>1, DocTypes
  <2> QED
    BY <1>2, <1>3, <1>4, <1>5, <1>7, <2>1, <2>2 DEF Delete, doc
<1>8. CASE Touch(j)
  BY <1>1, <1>2, <1>8, LoadsAccounts DEF Touch, doc
<1>9. CASE Read(j)
  BY <1>3, <1>9 DEF Read, doc
<1> QED
  BY <1>6, <1>7, <1>8, <1>9

LEMMA WorkAccounts ==
    ASSUME AInv, NEW j \in jobs, Work(j)
    PROVE  Accounts'
<1>1. jobs' \subseteq SJob /\ store' \in Single
  BY RegisterAccounts, OtherAccounts DEF Work
<1> QED
  BY <1>1 DEF AInv, Accounts, Work, control, polling

\* The settings pages, stop_bot and the restart.
LEMMA CancelAccounts ==
    ASSUME AInv, NEW p \in Pollers, Cancelled(p)
    PROVE  /\ jobs' \subseteq SJob /\ todo' \in [Pollers -> SUBSET SJob]
           /\ copy' \in [Pollers -> Single]
BY DEF AInv, Accounts, Cancelled

LEMMA ControlAccounts ==
    ASSUME AInv,
           \/ \E on \in BOOLEAN : SaveSettings(on)
           \/ ToggleOn \/ ToggleOff
           \/ \E s \in stops : StopBegins(s) \/ StopEnds(s)
           \/ Restart
    PROVE  Accounts'
<1>1. \A b \in BOOLEAN : [store EXCEPT !.on = b] \in Single
  BY SingleDocs DEF AInv, Accounts
<1>2. ASSUME NEW on \in BOOLEAN, SaveSettings(on) PROVE Accounts'
  <2>1. \A s \in stops' : s.copy \in Single
    BY <1>2, SingleDocs, StopTypes DEF AInv, Accounts, SaveSettings
  <2> QED
    BY <1>1, <1>2, <2>1 DEF AInv, Accounts, SaveSettings
<1>3. CASE ToggleOn
  BY <1>1, <1>3 DEF AInv, Accounts, ToggleOn
<1>4. CASE ToggleOff
  <2>1. task \in Pollers /\ Cancelled(task)
    BY <1>4 DEF AInv, TInv, Types, TypeOK, ToggleOff, Running
  <2>2. \A s \in stops' : s.copy \in Single
    BY <1>4 DEF AInv, Accounts, ToggleOff
  <2> QED
    BY <1>4, <2>1, <2>2, CancelAccounts DEF AInv, Accounts, ToggleOff, doc
<1>5. ASSUME NEW s \in stops, StopBegins(s) PROVE Accounts'
  <2>1. s.copy \in Single /\ s \in Stop
    BY DEF AInv, Accounts, TInv, Types, TypeOK
  <2>2. CASE Running
    <3>1. task \in Pollers /\ Cancelled(task)
      BY <1>5, <2>2 DEF AInv, TInv, Types, TypeOK, Running, StopBegins
    <3>2. [s EXCEPT !.of = task].copy \in Single
      BY <2>1, <3>1, StopTypes
    <3>3. \A t \in stops' : t.copy \in Single
      BY <1>5, <2>2, <3>2 DEF AInv, Accounts, StopBegins
    <3> QED
      BY <1>5, <3>1, <3>3, CancelAccounts DEF AInv, Accounts, StopBegins, doc
  <2>3. CASE ~Running
    BY <1>5, <2>3 DEF AInv, Accounts, StopBegins, polling, doc
  <2> QED
    BY <2>2, <2>3
<1>6. ASSUME NEW s \in stops, StopEnds(s) PROVE Accounts'
  <2>1. s.copy \in Single
    BY DEF AInv, Accounts
  <2>2. store' \in Single
    BY <1>6, <2>1, SingleDocs DEF AInv, Accounts, StopEnds
  <2> QED
    BY <1>6, <2>2 DEF AInv, Accounts, StopEnds, polling
<1>7. CASE Restart
  BY <1>7, SingleDocs DEF AInv, Accounts, Restart, doc
<1> QED
  BY <1>2, <1>3, <1>4, <1>5, <1>6, <1>7

LEMMA NextAccounts == AInv /\ [Next]_vars => AInv'
<1> SUFFICES ASSUME AInv, [Next]_vars PROVE Accounts'
  BY NextTypes DEF AInv
<1>1. ASSUME UNCHANGED <<doc, control, todo, copy, jobs>> PROVE Accounts'
  BY <1>1 DEF AInv, Accounts, doc, control
<1>2. ASSUME NEW p \in Pollers, BotStep(p) PROVE Accounts'
  <2>1. CASE Login(p) \/ LoginFails(p) \/ Closed(p)
    BY <1>1, <2>1 DEF Login, LoginFails, Closed, Moves
  <2>2. CASE Reply(p) \/ Raise(p)
    BY <2>2, OverAccounts DEF Reply, Raise
  <2> QED
    BY <1>2, <2>1, <2>2, HandlerAccounts, ResumeAccounts DEF BotStep
<1>3. ASSUME NEW p \in Pollers, Poll(p) \/ PollLost(p) PROVE Accounts'
  BY <1>1, <1>3 DEF Poll, PollLost, polling
<1>4. ASSUME NEW m \in Msg, Send(m) PROVE Accounts'
  BY <1>1, <1>4 DEF Send, polling
<1>5. CASE UNCHANGED vars
  BY <1>1, <1>5 DEF vars, polling
<1> QED
  BY <1>2, <1>3, <1>4, <1>5, WorkAccounts, ControlAccounts DEF Next

\* A chat has one account at most, for any number of chats, threads and stops:
\* register_user_with_code looks for the chat in the copy it adds the user to,
\* and nothing else adds users, so that no save brings a second one.
THEOREM BotOneAccount == Spec => []OneAccountPerChat
<1>1. AInv => OneAccountPerChat
  BY DEF AInv, Accounts, Single, OneAccountPerChat
<1> QED
  BY <1>1, InitAccounts, NextAccounts, PTL DEF Spec

=============================================================================
