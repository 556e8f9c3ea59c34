--------------------------- MODULE ManagerProofs ----------------------------
(***************************************************************************)
(* What holds of Manager for every number of spaces, every set of          *)
(* operations and searches, and every number of failures and of changes    *)
(* made elsewhere.                                                         *)
(***************************************************************************)
EXTENDS Manager, WellFoundedInduction, TLAPS

Kinds == Reads \cup {"action"}

\* The id a request of a kind has.  There is never need of a second one.
Slot(k) == <<k, 1>>
Busy(u, k) == Slot(k) \in DOMAIN u.calls
Asked(u, k) == u.calls[Slot(k)]
Result(u, k) == Asked(u, k).answer.result

LEMMA SlotsDiffer ==
  /\ \A k \in Kinds : Slot(k) \in CallIds /\ Slot(k) # NoId
  /\ \A k, l \in Kinds : Slot(k) = Slot(l) => k = l
  BY DEF Slot, Kinds, Reads, CallIds, NoId

-----------------------------------------------------------------------------
(* A Ui, and what each of its requests is.                                 *)

IsUi(u) ==
  u = [connected |-> u.connected, closed |-> u.closed, page |-> u.page,
       selected |-> u.selected, pendingSelect |-> u.pendingSelect,
       spaces |-> u.spaces, search |-> u.search, runningOnly |-> u.runningOnly,
       details |-> u.details, detailRequest |-> u.detailRequest,
       profile |-> u.profile, form |-> u.form, latest |-> u.latest,
       listAgain |-> u.listAgain, profilesAgain |-> u.profilesAgain,
       pending |-> u.pending, dialogs |-> u.dialogs, calls |-> u.calls]

IsFcn(f) == f = [x \in DOMAIN f |-> f[x]]

\* One request at most of each kind, the one its slot waits for.
Owned(u) ==
  /\ u.latest = [k \in Reads |-> u.latest[k]]
  /\ IsFcn(u.calls)
  /\ \A k \in Reads : u.latest[k] = IF Busy(u, k) THEN Slot(k) ELSE NoId
  /\ IF Busy(u, "action") THEN u.pending.id = Slot("action")
                          ELSE u.pending = NoAction
  /\ DOMAIN u.calls \subseteq {Slot(k) : k \in Kinds}

\* The parts of a Ui that no request is in, but for the selection.
SameRest(u, v) ==
  /\ v.connected = u.connected /\ v.closed = u.closed /\ v.page = u.page
  /\ v.pendingSelect = u.pendingSelect
  /\ v.spaces = u.spaces /\ v.search = u.search
  /\ v.runningOnly = u.runningOnly
  /\ v.profile = u.profile /\ v.form = u.form /\ v.dialogs = u.dialogs
  /\ v.listAgain = u.listAgain /\ v.profilesAgain = u.profilesAgain

SameView(u, v) ==
  SameRest(u, v) /\ v.selected = u.selected /\ v.details = u.details

SameSlot(u, v, k) ==
  (Busy(v, k) <=> Busy(u, k)) /\ (Busy(u, k) => Asked(v, k) = Asked(u, k))

\* The requests of all kinds but k stay.
SameOthers(u, v, k) == \A l \in Kinds \ {k} : SameSlot(u, v, l)

\* A request of the kind k has been sent.
Sent(u, v, k) ==
  ~u.closed /\ ~Busy(u, k) /\ Busy(v, k) /\ Result(v, k) = "none"

LEMMA FreshId ==
  ASSUME NEW u, Owned(u), NEW k \in Kinds, ~Busy(u, k)
  PROVE  NextRequestId(u, k) = Slot(k)
<1> DEFINE used == DOMAIN u.calls \cup Range(u.latest) \cup {u.pending.id}
<1>1. Slot(k) \notin DOMAIN u.calls
  BY DEF Busy
<1>2. ASSUME NEW l \in Reads PROVE u.latest[l] # Slot(k)
  BY <1>2, SlotsDiffer DEF Owned, Kinds
<1>3. u.pending.id # Slot(k)
  BY SlotsDiffer DEF Owned, Kinds, NoAction
<1>4. DOMAIN u.latest = Reads
  BY DEF Owned
<1>5. Slot(k) \notin Range(u.latest)
  BY <1>2, <1>4 DEF Range
<1>6. <<k, 1>> \notin used
  BY <1>1, <1>3, <1>5 DEF Slot
<1> HIDE DEF used
<1>7. QED
  BY <1>6 DEF NextRequestId, Slot, used

\* Daemon::send under the id of the kind: the call is there and no other changed.
LEMMA SendEffect ==
  ASSUME NEW u, IsUi(u), IsFcn(u.calls),
         NEW k \in Kinds, NEW c, NEW v, v = Send(u, Slot(k), c)
  PROVE  /\ IsUi(v) /\ SameView(u, v) /\ SameOthers(u, v, k)
         /\ v.latest = u.latest /\ v.pending = u.pending
         /\ v.detailRequest = u.detailRequest
         /\ IsFcn(v.calls)
         /\ DOMAIN v.calls = DOMAIN u.calls \cup {Slot(k)}
         /\ Busy(v, k) /\ Asked(v, k) = c
<1> DEFINE id == Slot(k)
<1>1. /\ IsUi(v) /\ SameView(u, v)
      /\ v.latest = u.latest /\ v.pending = u.pending
      /\ v.detailRequest = u.detailRequest
      /\ v.calls = [i \in DOMAIN u.calls \cup {id} |->
                      IF i = id THEN c ELSE u.calls[i]]
  BY DEF IsUi, Send, SameView, SameRest
<1>2. /\ DOMAIN v.calls = DOMAIN u.calls \cup {id} /\ v.calls[id] = c
      /\ \A i \in DOMAIN u.calls \ {id} : v.calls[i] = u.calls[i]
  BY <1>1
<1> HIDE DEF id
<1>3. SameOthers(u, v, k)
  <2> SUFFICES ASSUME NEW l \in Kinds \ {k} PROVE SameSlot(u, v, l)
    BY DEF SameOthers
  <2>1. Slot(l) # id
    BY SlotsDiffer DEF id
  <2>2. QED
    BY <1>1, <1>2, <2>1 DEF SameSlot, Busy, Asked
<1>4. QED
  BY <1>1, <1>2, <1>3 DEF Busy, Asked, id, IsFcn

-----------------------------------------------------------------------------
(* What each function of the Ui does.                                      *)

LEMMA OwnedAfterRead ==
  ASSUME NEW u, Owned(u), NEW k \in Reads, ~Busy(u, k), NEW v,
         v.latest = [u.latest EXCEPT ![k] = Slot(k)], v.pending = u.pending,
         IsFcn(v.calls),
         DOMAIN v.calls = DOMAIN u.calls \cup {Slot(k)},
         SameOthers(u, v, k), Busy(v, k)
  PROVE  Owned(v)
<1>1. v.latest = [l \in Reads |-> IF l = k THEN Slot(k) ELSE u.latest[l]]
  BY DEF Owned
<1>2. \A l \in Reads : v.latest[l] = IF Busy(v, l) THEN Slot(l) ELSE NoId
  BY <1>1 DEF Owned, SameOthers, SameSlot, Kinds
<1>3. Busy(v, "action") <=> Busy(u, "action")
  BY DEF SameOthers, SameSlot, Kinds, Reads
<1>4. DOMAIN v.calls \subseteq {Slot(l) : l \in Kinds}
  BY DEF Owned, Kinds
<1>5. v.latest = [l \in Reads |-> v.latest[l]]
  BY <1>1
<1> QED
  BY <1>2, <1>3, <1>4, <1>5 DEF Owned

\* A call just sent, by what it is about.
NewCall(c, op, s) ==
  /\ c = [op |-> c.op, space |-> c.space, encrypted |-> c.encrypted,
          passphrase |-> c.passphrase, answer |-> c.answer]
  /\ c.op = op /\ c.space = s /\ c.answer.result = "none"

LEMMA CallIsNew ==
  ASSUME NEW op, NEW s, NEW e, NEW p
  PROVE  NewCall(Call(op, s, e, p), op, s)
  BY DEF NewCall, Call, NoAnswer

\* refresh_list and request_profiles_for_dialog send, or leave all as it is.
LEMMA RefreshEffect ==
  ASSUME NEW u, IsUi(u), Owned(u), NEW k \in Reads, NEW v, v = Refresh(u, k)
  PROVE  /\ IsUi(v) /\ Owned(v) /\ SameView(u, v) /\ SameOthers(u, v, k)
         /\ v.pending = u.pending /\ v.detailRequest = u.detailRequest
         /\ \/ v = u /\ (u.closed \/ Busy(u, k))
            \/ Sent(u, v, k) /\ NewCall(Asked(v, k), k, None)
<1>1. u.latest[k] # NoId <=> Busy(u, k)
  BY SlotsDiffer DEF Owned, Kinds
<1>2. CASE u.closed \/ Busy(u, k)
  <2>1. v = u
    BY <1>1, <1>2 DEF Refresh
  <2> QED BY <1>2, <2>1 DEF SameView, SameRest, SameOthers, SameSlot
<1>3. CASE ~u.closed /\ ~Busy(u, k)
  <2> DEFINE w == [u EXCEPT !.latest[k] = Slot(k)]
             c == Call(k, None, FALSE, FALSE)
  <2>1. NextRequestId(u, k) = Slot(k)
    BY <1>3, FreshId DEF Kinds
  <2>2. v = Send(w, Slot(k), c)
    BY <1>1, <1>3, <2>1 DEF Refresh
  <2>3. /\ IsUi(w) /\ SameView(u, w) /\ w.calls = u.calls
        /\ w.pending = u.pending /\ w.detailRequest = u.detailRequest
        /\ w.latest = [u.latest EXCEPT ![k] = Slot(k)]
    BY DEF IsUi, SameView, SameRest
  <2>4. NewCall(c, k, None)
    BY CallIsNew
  <2> HIDE DEF w, c
  <2>5. /\ IsUi(v) /\ SameView(w, v) /\ SameOthers(w, v, k)
        /\ v.latest = w.latest /\ v.pending = w.pending
        /\ v.detailRequest = w.detailRequest
        /\ IsFcn(v.calls)
        /\ DOMAIN v.calls = DOMAIN w.calls \cup {Slot(k)}
        /\ Busy(v, k) /\ Asked(v, k) = c
    BY <2>2, <2>3, SendEffect DEF Owned, Kinds
  <2>6. SameView(u, v)
    BY <2>3, <2>5 DEF SameView, SameRest
  <2>7. SameOthers(u, v, k)
    BY <2>3, <2>5 DEF SameOthers, SameSlot, Busy, Asked
  <2>8. Owned(v)
    BY <1>3, <2>3, <2>5, <2>7, OwnedAfterRead
  <2>9. Sent(u, v, k)
    BY <1>3, <2>4, <2>5 DEF Sent, Result, NewCall
  <2> QED
    BY <2>3, <2>4, <2>5, <2>6, <2>7, <2>8, <2>9
<1> QED BY <1>2, <1>3

\* The details of s are asked for, under the epoch of now.
DescribeSent(v, s) ==
  /\ NewCall(Asked(v, "describe"), "describe", s)
  /\ v.detailRequest \in [space : {s}, current : {TRUE}]

\* refresh_detail.
LEMMA RefreshDetailEffect ==
  ASSUME NEW u, IsUi(u), Owned(u), NEW s, NEW v, v = RefreshDetail(u, s)
  PROVE  /\ IsUi(v) /\ Owned(v) /\ SameView(u, v)
         /\ SameOthers(u, v, "describe") /\ v.pending = u.pending
         /\ \/ v = u /\ (u.closed \/ ~u.connected \/ Busy(u, "describe"))
            \/ /\ Sent(u, v, "describe") /\ u.connected
               /\ DescribeSent(v, s)
<1> DEFINE k == "describe"
<1>0. k \in Reads
  BY DEF Reads
<1> HIDE DEF k
<1>1. u.latest[k] # NoId <=> Busy(u, k)
  BY <1>0, SlotsDiffer DEF Owned, Kinds
<1>2. CASE u.closed \/ ~u.connected \/ Busy(u, k)
  <2>1. v = u
    BY <1>1, <1>2 DEF RefreshDetail, k
  <2> QED BY <1>2, <2>1 DEF SameView, SameRest, SameOthers, SameSlot, k
<1>3. CASE ~u.closed /\ u.connected /\ ~Busy(u, k)
  <2> DEFINE r == [space |-> s, current |-> TRUE]
             c == Call(k, s, FALSE, FALSE)
             w == [u EXCEPT !.latest[k] = Slot(k), !.detailRequest = r]
  <2>1. NextRequestId(u, k) = Slot(k)
    BY <1>0, <1>3, FreshId DEF Kinds
  <2>2. v = Send(w, Slot(k), c)
    BY <1>1, <1>3, <2>1 DEF RefreshDetail, k
  <2>4. NewCall(c, k, s) /\ r \in [space : {s}, current : {TRUE}]
    BY CallIsNew
  <2> HIDE DEF c, r
  <2> DEFINE t == [u EXCEPT !.latest[k] = Slot(k)]
  <2>a. w = [t EXCEPT !.detailRequest = r]
    BY DEF IsUi
  <2>b. /\ IsUi(t) /\ SameView(u, t) /\ t.calls = u.calls
        /\ t.pending = u.pending
        /\ t.latest = [u.latest EXCEPT ![k] = Slot(k)]
    BY DEF IsUi, SameView, SameRest
  <2> HIDE DEF w, t
  <2>3. /\ IsUi(w) /\ SameView(u, w) /\ w.calls = u.calls
        /\ w.pending = u.pending /\ w.detailRequest = r
        /\ w.latest = [u.latest EXCEPT ![k] = Slot(k)]
    BY <2>a, <2>b DEF IsUi, SameView, SameRest
  <2>5. /\ IsUi(v) /\ SameView(w, v) /\ SameOthers(w, v, k)
        /\ v.latest = w.latest /\ v.pending = w.pending
        /\ v.detailRequest = w.detailRequest
        /\ IsFcn(v.calls)
        /\ DOMAIN v.calls = DOMAIN w.calls \cup {Slot(k)}
        /\ Busy(v, k) /\ Asked(v, k) = c
    BY <1>0, <2>2, <2>3, SendEffect DEF Owned, Kinds
  <2>6. SameView(u, v)
    BY <2>3, <2>5 DEF SameView, SameRest
  <2>7. SameOthers(u, v, k)
    BY <2>3, <2>5 DEF SameOthers, SameSlot, Busy, Asked
  <2>8. Owned(v)
    BY <1>0, <1>3, <2>3, <2>5, <2>7, OwnedAfterRead
  <2>9. Sent(u, v, k)
    BY <1>3, <2>4, <2>5 DEF Sent, Result, NewCall
  <2>10. DescribeSent(v, s)
    BY <2>3, <2>4, <2>5 DEF DescribeSent, k
  <2> QED
    BY <1>3, <2>3, <2>5, <2>6, <2>7, <2>8, <2>9, <2>10 DEF k
<1> QED BY <1>2, <1>3 DEF k

ActionSent(v, kind, op, s, e, p) ==
  /\ Asked(v, "action") = Call(op, s, e, p)
  /\ v.pending = [id |-> Slot("action"), kind |-> kind, op |-> op,
                  space |-> s, encrypted |-> e]

\* send_action.
LEMMA SendActionEffect ==
  ASSUME NEW u, IsUi(u), Owned(u), NEW kind, NEW op, NEW s, NEW e, NEW p,
         NEW v, v = SendAction(u, kind, op, s, e, p)
  PROVE  /\ IsUi(v) /\ Owned(v) /\ SameView(u, v)
         /\ SameOthers(u, v, "action") /\ v.detailRequest = u.detailRequest
         /\ \/ v = u /\ (u.closed \/ ~u.connected \/ Busy(u, "action"))
            \/ /\ Sent(u, v, "action") /\ u.connected
               /\ ActionSent(v, kind, op, s, e, p)
<1> DEFINE k == "action"
<1>0. k \in Kinds /\ k \notin Reads
  BY DEF Reads, Kinds
<1>1. u.pending # NoAction <=> Busy(u, k)
  BY <1>0, SlotsDiffer DEF Owned, NoAction
<1> HIDE DEF k
<1>2. CASE u.closed \/ ~u.connected \/ Busy(u, k)
  <2>1. v = u
    BY <1>1, <1>2 DEF SendAction, k
  <2> QED BY <1>2, <2>1 DEF SameView, SameRest, SameOthers, SameSlot, k
<1>3. CASE ~u.closed /\ u.connected /\ ~Busy(u, k)
  <2> DEFINE a == [id |-> Slot(k), kind |-> kind, op |-> op, space |-> s,
                   encrypted |-> e]
             c == Call(op, s, e, p)
             w == [u EXCEPT !.pending = a]
  <2>1. NextRequestId(u, k) = Slot(k)
    BY <1>0, <1>3, FreshId
  <2>2. v = Send(w, Slot(k), c)
    BY <1>1, <1>3, <2>1 DEF SendAction, k
  <2>4. c.answer.result = "none" /\ a.id = Slot(k)
    BY DEF Call, NoAnswer
  <2> HIDE DEF c, a
  <2>3. /\ IsUi(w) /\ SameView(u, w) /\ w.calls = u.calls
        /\ w.pending = a /\ w.detailRequest = u.detailRequest
        /\ w.latest = u.latest
    BY DEF IsUi, SameView, SameRest
  <2> HIDE DEF w
  <2>5. /\ IsUi(v) /\ SameView(w, v) /\ SameOthers(w, v, k)
        /\ v.latest = w.latest /\ v.pending = w.pending
        /\ v.detailRequest = w.detailRequest
        /\ IsFcn(v.calls)
        /\ DOMAIN v.calls = DOMAIN w.calls \cup {Slot(k)}
        /\ Busy(v, k) /\ Asked(v, k) = c
    BY <1>0, <2>2, <2>3, SendEffect DEF Owned
  <2>6. SameView(u, v)
    BY <2>3, <2>5 DEF SameView, SameRest
  <2>7. SameOthers(u, v, k)
    BY <2>3, <2>5 DEF SameOthers, SameSlot, Busy, Asked
  <2>8. Owned(v)
    <3>1. \A l \in Reads : v.latest[l] = IF Busy(v, l) THEN Slot(l) ELSE NoId
      BY <1>0, <2>3, <2>5, <2>7 DEF Owned, SameOthers, SameSlot, Kinds
    <3>2. DOMAIN v.calls \subseteq {Slot(l) : l \in Kinds}
      BY <1>0, <2>3, <2>5 DEF Owned
    <3>3. v.pending.id = Slot(k)
      BY <2>3, <2>4, <2>5
    <3>4. v.latest = [l \in Reads |-> v.latest[l]]
      BY <2>3, <2>5 DEF Owned
    <3> QED BY <2>5, <3>1, <3>2, <3>3, <3>4 DEF Owned, k
  <2>9. Sent(u, v, k)
    BY <1>3, <2>4, <2>5 DEF Sent, Result
  <2> QED
    BY <1>3, <2>3, <2>5, <2>6, <2>7, <2>8, <2>9 DEF c, a, k, ActionSent
<1> QED BY <1>2, <1>3 DEF k

-----------------------------------------------------------------------------
(* Types.                                                                  *)

\* A space is only created under an id and with an encryption there is.
Creates(op, s, e) == op = "create" => s \in Ids /\ e \in Encryption

CallOK(k, c) ==
  /\ c = [op |-> c.op, space |-> c.space, encrypted |-> c.encrypted,
          passphrase |-> c.passphrase, answer |-> c.answer]
  /\ IF k = "action" THEN c.op \in Actions ELSE c.op = k
  /\ k = "describe" => c.space \in Ids
  /\ Creates(c.op, c.space, c.encrypted)
  /\ c.answer.result = "ok" =>
       /\ k = "list" => c.answer.body \in Rows
       /\ k = "describe" => c.answer.body \in [space : {c.space}, row : Row]
       /\ k = "profiles" => c.answer.body \in {"unbuilt", "ready"}

DialogOK(d) ==
  /\ d.type \in {"confirm", "passphrase", "prompt", "create"}
  /\ IF d.type = "create" THEN d = CreateDialog ELSE d.space \in Ids
  /\ d.type \in {"confirm", "passphrase"} => d.op \in Actions \ {"create"}

\* The pending action, as far as its answer needs it.
PendingOK(a) ==
  /\ a.kind \in {"create", "passphrase"} => a.space \in Ids
  /\ a.kind = "passphrase" => a.op \in Actions \ {"create"}

CallsOK(u) == \A k \in Kinds : Busy(u, k) => CallOK(k, Asked(u, k))

DetailRequests == [space : Ids \cup {None}, current : BOOLEAN]

ViewOK(u) ==
  /\ u.connected \in BOOLEAN /\ u.closed \in BOOLEAN
  /\ u.runningOnly \in BOOLEAN
  /\ u.listAgain \in BOOLEAN /\ u.profilesAgain \in BOOLEAN
  /\ u.page \in {"spaces", "images"}
  /\ u.spaces \in Rows
  /\ u.selected \in Ids \cup {None} /\ u.pendingSelect \in Ids \cup {None}
  /\ u.search \subseteq Ids
  /\ u.details \in [space : Ids, row : Row] \cup {NoDetails}
  /\ u.profile \in {"none", "unbuilt", "ready"}
  /\ u.form \in {"none", "unbuilt", "ready"}
  /\ u.detailRequest \in DetailRequests
  /\ \A d \in u.dialogs : DialogOK(d)

Typed(u) == IsUi(u) /\ Owned(u) /\ CallsOK(u) /\ ViewOK(u) /\ PendingOK(u.pending)

LEMMA DomainOfRows == ASSUME NEW f \in Rows PROVE DOMAIN f \subseteq Ids
  BY DEF Rows

LEMMA NewCallOK ==
  ASSUME NEW k, NEW op, NEW s, NEW e, NEW p,
         IF k = "action" THEN op \in Actions ELSE op = k,
         k = "describe" => s \in Ids, Creates(op, s, e)
  PROVE  CallOK(k, Call(op, s, e, p)) /\ Call(op, s, e, p).answer.result = "none"
<1> DEFINE c == Call(op, s, e, p)
<1>1. /\ c.op = op /\ c.space = s /\ c.encrypted = e
      /\ c.answer.result = "none"
      /\ c = [op |-> c.op, space |-> c.space, encrypted |-> c.encrypted,
              passphrase |-> c.passphrase, answer |-> c.answer]
  BY DEF Call, NoAnswer
<1> HIDE DEF c
<1>2. CallOK(k, c)
  BY <1>1 DEF CallOK
<1> QED BY <1>1, <1>2 DEF c

LEMMA RefreshTyped ==
  ASSUME NEW u, Typed(u), NEW k \in {"list", "profiles"}
  PROVE  Typed(Refresh(u, k))
<1> DEFINE v == Refresh(u, k)
<1> HIDE DEF v
<1>1. k \in Reads /\ k # "action"
  BY DEF Reads
<1>2. /\ IsUi(v) /\ Owned(v) /\ SameView(u, v) /\ SameOthers(u, v, k)
      /\ v.pending = u.pending /\ v.detailRequest = u.detailRequest
      /\ \/ v = u
         \/ NewCall(Asked(v, k), k, None)
  BY <1>1, RefreshEffect DEF Typed, v
<1>3. NewCall(Asked(v, k), k, None) => CallOK(k, Asked(v, k))
  BY <1>1 DEF NewCall, CallOK, Creates
<1>4. CallsOK(v)
  BY <1>2, <1>3 DEF Typed, CallsOK, SameOthers, SameSlot
<1>5. ViewOK(v)
  BY <1>2 DEF Typed, ViewOK, SameView, SameRest
<1> QED BY <1>2, <1>4, <1>5 DEF Typed, v

LEMMA RefreshDetailTyped ==
  ASSUME NEW u, Typed(u), NEW s \in Ids
  PROVE  Typed(RefreshDetail(u, s))
<1> DEFINE v == RefreshDetail(u, s)
           k == "describe"
<1> HIDE DEF v
<1>2. /\ IsUi(v) /\ Owned(v) /\ SameView(u, v) /\ SameOthers(u, v, k)
      /\ v.pending = u.pending
      /\ \/ v = u
         \/ DescribeSent(v, s)
  BY RefreshDetailEffect DEF Typed, v
<1>3. DescribeSent(v, s) => CallOK(k, Asked(v, k))
  BY DEF DescribeSent, NewCall, CallOK, Creates
<1>4. CallsOK(v)
  BY <1>2, <1>3 DEF Typed, CallsOK, SameOthers, SameSlot
<1>5. v.detailRequest \in DetailRequests
  BY <1>2 DEF Typed, ViewOK, DetailRequests, DescribeSent
<1>6. ViewOK(v)
  BY <1>2, <1>5 DEF Typed, ViewOK, SameView, SameRest
<1> QED BY <1>2, <1>4, <1>6 DEF Typed, v

LEMMA SendActionTyped ==
  ASSUME NEW u, Typed(u), NEW kind, NEW op \in Actions, NEW s, NEW e, NEW p,
         Creates(op, s, e), kind \in {"create", "passphrase"} => s \in Ids,
         kind = "passphrase" => op # "create"
  PROVE  Typed(SendAction(u, kind, op, s, e, p))
<1> DEFINE v == SendAction(u, kind, op, s, e, p)
           k == "action"
           a == [id |-> Slot("action"), kind |-> kind, op |-> op,
                 space |-> s, encrypted |-> e]
<1>1. PendingOK(a)
  BY DEF PendingOK
<1> HIDE DEF v, a
<1>2. /\ IsUi(v) /\ Owned(v) /\ SameView(u, v) /\ SameOthers(u, v, k)
      /\ v.detailRequest = u.detailRequest
      /\ \/ v = u
         \/ ActionSent(v, kind, op, s, e, p)
  BY SendActionEffect DEF Typed, v
<1>3. CallOK(k, Call(op, s, e, p))
  BY NewCallOK
<1>6. ActionSent(v, kind, op, s, e, p) =>
        CallOK(k, Asked(v, k)) /\ PendingOK(v.pending)
  BY <1>1, <1>3 DEF ActionSent, a
<1>4. CallsOK(v)
  BY <1>2, <1>6 DEF Typed, CallsOK, SameOthers, SameSlot
<1>5. ViewOK(v)
  BY <1>2 DEF Typed, ViewOK, SameView, SameRest
<1> QED BY <1>2, <1>4, <1>5, <1>6 DEF Typed, v

\* A change that leaves the requests alone.
LEMMA KeepRequests ==
  ASSUME NEW u, Typed(u), NEW v, IsUi(v), v.calls = u.calls,
         v.latest = u.latest, v.pending = u.pending, ViewOK(v)
  PROVE  Typed(v) /\ \A k : SameSlot(u, v, k)
<1>1. \A k : (Busy(v, k) <=> Busy(u, k)) /\ Asked(v, k) = Asked(u, k)
  BY DEF Busy, Asked
<1>2. Owned(v)
  BY <1>1 DEF Typed, Owned
<1>3. CallsOK(v)
  BY <1>1 DEF Typed, CallsOK
<1> QED BY <1>1, <1>2, <1>3 DEF Typed, SameSlot

LEMMA EpochEffect ==
  ASSUME NEW u, Typed(u), NEW v, v = NextEpoch(u)
  PROVE  /\ Typed(v) /\ SameView(u, v) /\ \A k : SameSlot(u, v, k)
         /\ v.calls = u.calls /\ v.latest = u.latest /\ v.pending = u.pending
         /\ v.detailRequest.space = u.detailRequest.space
         /\ ~v.detailRequest.current
<1> DEFINE r == [u.detailRequest EXCEPT !.current = FALSE]
<1>1. v = [u EXCEPT !.detailRequest = r]
  BY DEF NextEpoch, Typed, IsUi
<1>2. /\ r.space = u.detailRequest.space /\ ~r.current
      /\ r \in DetailRequests
  BY DEF Typed, ViewOK, DetailRequests
<1> HIDE DEF r
<1>3. /\ IsUi(v) /\ SameView(u, v) /\ v.detailRequest = r
      /\ v.calls = u.calls /\ v.latest = u.latest /\ v.pending = u.pending
  BY <1>1 DEF Typed, IsUi, SameView, SameRest
<1>4. ViewOK(v)
  BY <1>2, <1>3 DEF Typed, ViewOK, SameView, SameRest
<1> QED BY <1>2, <1>3, <1>4, KeepRequests

\* select_space and show_selection: what is on screen of another space goes, and
\* details are asked for when none are on screen.
SelectRel(u, v, s) ==
  /\ SameRest(u, v) /\ SameOthers(u, v, "describe") /\ v.pending = u.pending
  /\ v.selected = s
  /\ v.details = IF s = u.selected /\ s \in DOMAIN u.spaces THEN u.details
                 ELSE NoDetails
  /\ \/ /\ SameSlot(u, v, "describe")
        /\ v.detailRequest.space = u.detailRequest.space
        /\ v.detailRequest.current => u.detailRequest.current /\ u.selected = s
     \/ /\ Sent(u, v, "describe") /\ u.connected /\ s \in DOMAIN u.spaces
        /\ Asked(v, "describe").space = s /\ v.detailRequest.space = s

LEMMA SelectEffect ==
  ASSUME NEW u, Typed(u), NEW s \in Ids \cup {None}, NEW v, v = SelectSpace(u, s)
  PROVE  Typed(v) /\ SelectRel(u, v, s)
<1> DEFINE e == NextEpoch(u)
           w == IF u.selected = s THEN u
                ELSE [e EXCEPT !.selected = s, !.details = NoDetails]
<1>1. v = IF s \notin DOMAIN w.spaces THEN [w EXCEPT !.details = NoDetails]
          ELSE IF w.details = NoDetails THEN RefreshDetail(w, s)
          ELSE w
  BY DEF SelectSpace
<1>2. /\ Typed(e) /\ SameView(u, e) /\ \A k : SameSlot(u, e, k)
      /\ e.pending = u.pending
      /\ e.detailRequest.space = u.detailRequest.space
      /\ ~e.detailRequest.current
  BY EpochEffect
<1> HIDE DEF e
<1> DEFINE Changed(t) ==
      /\ Typed(t) /\ SameRest(u, t) /\ \A k : SameSlot(u, t, k)
      /\ t.pending = u.pending /\ t.selected = s
      /\ t.detailRequest.space = u.detailRequest.space
      /\ t.detailRequest.current => u.detailRequest.current /\ u.selected = s
<1>3. Changed(w) /\ w.details = IF u.selected = s THEN u.details ELSE NoDetails
  <2>1. CASE u.selected = s
    BY <2>1 DEF SameRest, SameSlot
  <2>2. CASE u.selected # s
    <3>1. w = [e EXCEPT !.selected = s, !.details = NoDetails]
      BY <2>2
    <3> HIDE DEF w
    <3>2. /\ IsUi(w) /\ SameRest(e, w) /\ w.selected = s /\ w.details = NoDetails
          /\ w.calls = e.calls /\ w.latest = e.latest /\ w.pending = e.pending
          /\ w.detailRequest = e.detailRequest
      BY <1>2, <3>1 DEF Typed, IsUi, SameRest
    <3>3. ViewOK(w)
      BY <1>2, <3>2 DEF Typed, ViewOK, SameRest
    <3>4. Typed(w) /\ \A k : SameSlot(e, w, k)
      BY <1>2, <3>2, <3>3, KeepRequests
    <3>5. \A k : SameSlot(u, w, k)
      BY <1>2, <3>4 DEF SameSlot
    <3>6. SameRest(u, w)
      BY <1>2, <3>2 DEF SameView, SameRest
    <3> QED BY <1>2, <2>2, <3>2, <3>4, <3>5, <3>6
  <2> QED BY <2>1, <2>2
<1> HIDE DEF w
<1>4. w.spaces = u.spaces /\ SameOthers(u, w, "describe")
  BY <1>3 DEF SameRest, SameOthers
<1>5. CASE s \notin DOMAIN u.spaces
  <2>1. v = [w EXCEPT !.details = NoDetails]
    BY <1>1, <1>4, <1>5
  <2>2. /\ IsUi(v) /\ SameRest(w, v) /\ v.selected = s /\ v.details = NoDetails
        /\ v.calls = w.calls /\ v.latest = w.latest /\ v.pending = w.pending
        /\ v.detailRequest = w.detailRequest
    BY <1>3, <2>1 DEF Typed, IsUi, SameRest
  <2>3. ViewOK(v)
    BY <1>3, <2>2 DEF Typed, ViewOK, SameRest
  <2>4. Typed(v) /\ \A k : SameSlot(w, v, k)
    BY <1>3, <2>2, <2>3, KeepRequests
  <2>5. \A k : SameSlot(u, v, k)
    BY <1>3, <2>4 DEF SameSlot
  <2>6. SameRest(u, v)
    BY <1>3, <2>2 DEF SameRest
  <2> QED BY <1>3, <1>5, <2>2, <2>4, <2>5, <2>6 DEF SelectRel, SameOthers
<1>6. CASE s \in DOMAIN u.spaces /\ w.details # NoDetails
  <2>1. v = w
    BY <1>1, <1>4, <1>6
  <2> QED BY <1>3, <1>4, <1>6, <2>1 DEF SelectRel
<1>7. CASE s \in DOMAIN u.spaces /\ w.details = NoDetails
  <2>1. v = RefreshDetail(w, s) /\ s \in Ids
    BY <1>1, <1>4, <1>7, DomainOfRows DEF Typed, ViewOK
  <2>2. Typed(v)
    BY <1>3, <2>1, RefreshDetailTyped
  <2>3. /\ SameView(w, v) /\ SameOthers(w, v, "describe") /\ v.pending = w.pending
        /\ \/ v = w
           \/ /\ Sent(w, v, "describe") /\ w.connected
              /\ DescribeSent(v, s)
    BY <1>3, <2>1, RefreshDetailEffect DEF Typed
  <2>4. CASE v = w
    BY <1>3, <1>4, <1>7, <2>4 DEF SelectRel
  <2>5. CASE v # w
    <3>1. Asked(v, "describe").space = s /\ v.detailRequest.space = s
      BY <2>3, <2>5 DEF DescribeSent, NewCall
    <3>2. Sent(u, v, "describe") /\ u.connected
      BY <1>3, <2>3, <2>5 DEF Sent, SameSlot, SameRest
    <3>3. SameRest(u, v) /\ SameOthers(u, v, "describe")
      BY <1>3, <2>3 DEF SameView, SameRest, SameOthers, SameSlot
    <3>4. v.selected = s /\ v.details = NoDetails /\ v.pending = u.pending
      BY <1>3, <1>7, <2>3 DEF SameView
    <3> QED BY <1>3, <1>7, <2>2, <3>1, <3>2, <3>3, <3>4 DEF SelectRel
  <2> QED BY <2>2, <2>4, <2>5
<1> QED BY <1>5, <1>6, <1>7

LEMMA MinIsMember ==
  ASSUME NEW S \in SUBSET Nat, S # {}
  PROVE  Min(S) \in S
<1> DEFINE R == {ss \in Nat \X Nat : ss[1] < ss[2]}
<1>1. IsWellFoundedOn(R, Nat)
  BY NatLessThanWellFounded DEF OpToRel
<1> HIDE DEF R
<1>2. PICK x \in S : \A y \in S : ~(<<y, x>> \in R)
  BY <1>1, WFMin
<1>3. ASSUME NEW y \in S PROVE x <= y
  <2>1. x \in Nat /\ y \in Nat
    OBVIOUS
  <2>2. y < x => <<y, x>> \in R
    BY <2>1 DEF R
  <2> QED BY <1>2, <2>1, <2>2
<1>4. \E z \in S : \A y \in S : z <= y
  BY <1>3
<1> QED BY <1>4 DEF Min

\* filter_spaces keeps a selection that is visible, and else takes a visible one.
LEMMA FilterEffect ==
  ASSUME NEW u, Typed(u), NEW v, v = FilterSpaces(u)
  PROVE  /\ Typed(v)
         /\ \E s \in Visible(u) \cup {None} :
              SelectRel(u, v, s) /\ (u.selected \in Visible(u) => s = u.selected)
<1> DEFINE V == Visible(u)
           s == CASE u.selected \in V -> u.selected
                  [] u.selected \notin V /\ V # {} -> Min(V)
                  [] OTHER -> None
<1>1. V \subseteq DOMAIN u.spaces /\ V \in SUBSET Ids
  BY DomainOfRows DEF Visible, Typed, ViewOK
<1>2. v = SelectSpace(u, s)
  BY DEF FilterSpaces
<1> HIDE DEF V
<1>3. s \in V \cup {None} /\ (u.selected \in V => s = u.selected)
  <2>1. CASE u.selected \in V
    BY <2>1
  <2>2. CASE u.selected \notin V /\ V # {}
    <3>1. Min(V) \in V
      BY <1>1, <2>2, MinIsMember, ManagerAssumption
    <3> QED BY <2>2, <3>1
  <2>3. CASE u.selected \notin V /\ V = {}
    BY <2>3
  <2> QED BY <2>1, <2>2, <2>3
<1> HIDE DEF s
<1>4. Typed(v) /\ SelectRel(u, v, s)
  BY <1>1, <1>2, <1>3, SelectEffect
<1> QED BY <1>3, <1>4 DEF V

\* What rendering a list leaves alone.
SameBesides(u, v) ==
  /\ v.closed = u.closed /\ v.page = u.page /\ v.profile = u.profile
  /\ v.form = u.form /\ v.dialogs = u.dialogs /\ v.listAgain = u.listAgain
  /\ v.profilesAgain = u.profilesAgain /\ v.pending = u.pending

LEMMA HonourEffect ==
  ASSUME NEW u, Typed(u), NEW v, v = HonourPendingSelect(u)
  PROVE  /\ Typed(v) /\ SameBesides(u, v) /\ \A k : SameSlot(u, v, k)
         /\ v.connected = u.connected /\ v.spaces = u.spaces
         /\ v.detailRequest.space = u.detailRequest.space
         /\ \/ v = u
            \/ /\ v.pendingSelect = None /\ v.selected = u.pendingSelect
               /\ v.selected \in Visible(v) /\ v.details = NoDetails
               /\ ~v.detailRequest.current
<1>1. CASE u.pendingSelect \notin DOMAIN u.spaces
  <2>1. v = u
    BY <1>1 DEF HonourPendingSelect
  <2> QED BY <2>1 DEF SameBesides, SameSlot
<1>2. CASE u.pendingSelect \in DOMAIN u.spaces
  <2> DEFINE e == NextEpoch(u)
             p == u.pendingSelect
  <2>1. v = [e EXCEPT !.pendingSelect = None, !.search = Ids,
                      !.runningOnly = FALSE, !.selected = p,
                      !.details = NoDetails]
    BY <1>2 DEF HonourPendingSelect
  <2>2. /\ Typed(e) /\ SameView(u, e) /\ \A k : SameSlot(u, e, k)
        /\ e.pending = u.pending
        /\ e.detailRequest.space = u.detailRequest.space
        /\ ~e.detailRequest.current
    BY EpochEffect
  <2> HIDE DEF e
  <2>3. p \in Ids
    BY <1>2, DomainOfRows DEF Typed, ViewOK
  <2>4. /\ IsUi(v) /\ v.calls = e.calls /\ v.latest = e.latest
        /\ v.pending = e.pending /\ v.detailRequest = e.detailRequest
        /\ v.pendingSelect = None /\ v.search = Ids /\ v.runningOnly = FALSE
        /\ v.selected = p /\ v.details = NoDetails
        /\ SameBesides(e, v) /\ v.connected = e.connected /\ v.spaces = e.spaces
    <3> HIDE DEF p
    <3> QED BY <2>1, <2>2 DEF Typed, IsUi, SameBesides
  <2>5. ViewOK(v)
    BY <2>2, <2>3, <2>4 DEF Typed, ViewOK, SameBesides
  <2>6. Typed(v) /\ \A k : SameSlot(e, v, k)
    BY <2>2, <2>4, <2>5, KeepRequests
  <2>7. \A k : SameSlot(u, v, k)
    BY <2>2, <2>6 DEF SameSlot
  <2>8. SameBesides(u, v) /\ v.connected = u.connected /\ v.spaces = u.spaces
    BY <2>2, <2>4 DEF SameBesides, SameView, SameRest
  <2>9. v.selected \in Visible(v)
    BY <1>2, <2>3, <2>4, <2>8 DEF Visible
  <2> QED BY <2>2, <2>4, <2>6, <2>7, <2>8, <2>9
<1> QED BY <1>1, <1>2

\* render_spaces: the selection is one that is listed, details stay only of the
\* space they are of, and a space just created is selected when it is there.
RenderRel(u, v) ==
  /\ SameBesides(u, v) /\ SameOthers(u, v, "describe")
  /\ v.selected \in DOMAIN v.spaces \cup {None}
  /\ ~v.connected => DOMAIN v.spaces = {}
  /\ v.details # NoDetails =>
       /\ v.details = u.details /\ v.selected = u.selected
       /\ v.selected \in DOMAIN v.spaces
  /\ \/ /\ SameSlot(u, v, "describe")
        /\ v.detailRequest.space = u.detailRequest.space
        /\ v.detailRequest.current =>
             u.detailRequest.current /\ u.selected = v.selected
     \/ /\ Sent(u, v, "describe")
        /\ Asked(v, "describe").space = v.selected
        /\ v.detailRequest.space = v.selected
  /\ v.pendingSelect # u.pendingSelect =>
       v.pendingSelect = None /\ v.selected = u.pendingSelect

LEMMA NoRowsIsTyped == NoRows \in Rows /\ DOMAIN NoRows = {}
<1>1. NoRows \in [{} -> Row] /\ DOMAIN NoRows = {}
  BY DEF NoRows
<1> QED BY <1>1 DEF Rows

\* A Ui with another list.
WithSpaces(u, c, f) == [u EXCEPT !.connected = c, !.spaces = f]

LEMMA NewSpaces ==
  ASSUME NEW u, Typed(u), NEW c \in BOOLEAN, NEW f \in Rows, NEW v,
         v = WithSpaces(u, c, f)
  PROVE  /\ Typed(v) /\ SameBesides(u, v) /\ \A k : SameSlot(u, v, k)
         /\ v.connected = c /\ v.spaces = f /\ v.selected = u.selected
         /\ v.pendingSelect = u.pendingSelect /\ v.details = u.details
         /\ v.detailRequest = u.detailRequest
<1>1. /\ IsUi(v) /\ v.calls = u.calls /\ v.latest = u.latest
      /\ v.pending = u.pending /\ v.detailRequest = u.detailRequest
      /\ v.pendingSelect = u.pendingSelect /\ v.search = u.search
      /\ v.runningOnly = u.runningOnly /\ v.selected = u.selected
      /\ v.details = u.details /\ SameBesides(u, v) /\ v.connected = c
      /\ v.spaces = f
  BY DEF Typed, IsUi, SameBesides, WithSpaces
<1>2. ViewOK(v)
  BY <1>1 DEF Typed, ViewOK, SameBesides
<1> QED BY <1>1, <1>2, KeepRequests

LEMMA RenderListed ==
  ASSUME NEW u, Typed(u), NEW f \in Rows, NEW yes \in BOOLEAN, NEW v,
         v = FilterSpaces(HonourPendingSelect(WithSpaces(u, yes, f)))
  PROVE  Typed(v) /\ v.connected = yes /\ v.spaces = f /\ (yes => RenderRel(u, v))
<1> DEFINE w == WithSpaces(u, yes, f)
           h == HonourPendingSelect(w)
<1>1. v = FilterSpaces(h)
  OBVIOUS
<1> HIDE DEF w, h
<1>3. /\ Typed(w) /\ SameBesides(u, w) /\ \A k : SameSlot(u, w, k)
      /\ w.connected = yes /\ w.spaces = f /\ w.selected = u.selected
      /\ w.pendingSelect = u.pendingSelect /\ w.details = u.details
      /\ w.detailRequest = u.detailRequest
  BY NewSpaces DEF w
<1>4. /\ Typed(h) /\ SameBesides(w, h) /\ \A k : SameSlot(w, h, k)
      /\ h.connected = w.connected /\ h.spaces = w.spaces
      /\ h.detailRequest.space = w.detailRequest.space
      /\ \/ h = w
         \/ /\ h.pendingSelect = None /\ h.selected = w.pendingSelect
            /\ h.selected \in Visible(h) /\ h.details = NoDetails
            /\ ~h.detailRequest.current
  BY <1>3, HonourEffect DEF h
<1>5. Typed(v)
  BY <1>1, <1>4, FilterEffect
<1>6. PICK s \in Visible(h) \cup {None} :
        SelectRel(h, v, s) /\ (h.selected \in Visible(h) => s = h.selected)
  BY <1>1, <1>4, FilterEffect
<1>7. /\ v.connected = yes /\ v.spaces = f /\ v.selected = s
      /\ s \in DOMAIN f \cup {None}
  BY <1>3, <1>4, <1>6 DEF SelectRel, SameRest, Visible
<1>8. SameBesides(u, v)
  BY <1>3, <1>4, <1>6 DEF SelectRel, SameRest, SameBesides
<1>9. SameOthers(u, v, "describe")
  BY <1>3, <1>4, <1>6 DEF SelectRel, SameOthers, SameSlot
<1>10. v.details # NoDetails =>
         /\ v.details = u.details /\ v.selected = u.selected
         /\ v.selected \in DOMAIN v.spaces
  BY <1>3, <1>4, <1>6, <1>7 DEF SelectRel
<1>11. SameSlot(u, h, "describe") /\ h.closed = u.closed
  BY <1>3, <1>4 DEF SameSlot, SameBesides
<1>12. \/ /\ SameSlot(u, v, "describe")
          /\ v.detailRequest.space = u.detailRequest.space
          /\ v.detailRequest.current =>
               u.detailRequest.current /\ u.selected = v.selected
       \/ /\ Sent(u, v, "describe")
          /\ Asked(v, "describe").space = v.selected
          /\ v.detailRequest.space = v.selected
  <2>1. CASE Sent(h, v, "describe")
    <3>1. Asked(v, "describe").space = v.selected /\ v.detailRequest.space = v.selected
      BY <1>6, <2>1 DEF SelectRel, SameSlot, Sent
    <3>2. Sent(u, v, "describe")
      BY <1>11, <2>1 DEF Sent, SameSlot
    <3> QED BY <3>1, <3>2
  <2>2. CASE ~Sent(h, v, "describe")
    <3>1. /\ SameSlot(h, v, "describe")
          /\ v.detailRequest.space = h.detailRequest.space
          /\ v.detailRequest.current => h.detailRequest.current /\ h.selected = s
      BY <1>6, <2>2 DEF SelectRel
    <3>2. SameSlot(u, v, "describe")
      BY <1>11, <3>1 DEF SameSlot
    <3> QED BY <1>3, <1>4, <1>7, <3>1, <3>2
  <2> QED BY <2>1, <2>2
<1>13. v.pendingSelect # u.pendingSelect =>
         v.pendingSelect = None /\ v.selected = u.pendingSelect
  BY <1>3, <1>4, <1>6, <1>7 DEF SelectRel, SameRest
<1> QED BY <1>5, <1>7, <1>8, <1>9, <1>10, <1>12, <1>13 DEF RenderRel

LEMMA RenderEffect ==
  ASSUME NEW u, Typed(u), NEW answer, answer.result = "ok" => answer.body \in Rows,
         NEW v, v = RenderSpaces(u, answer)
  PROVE  /\ Typed(v) /\ RenderRel(u, v)
         /\ IF answer.result = "ok" THEN v.connected /\ v.spaces = answer.body
            ELSE ~v.connected /\ v.spaces = NoRows
<1>n. None \notin Ids
  BY ManagerAssumption DEF None
<1>1. CASE answer.result = "ok"
  <2>1. PICK f \in Rows : f = answer.body
    BY <1>1
  <2> DEFINE w == [u EXCEPT !.connected = TRUE, !.spaces = f]
  <2>2. v = FilterSpaces(HonourPendingSelect(w))
    BY <1>1, <2>1 DEF RenderSpaces
  <2>3. w = WithSpaces(u, TRUE, f)
    BY Zenon DEF WithSpaces
  <2> HIDE DEF w
  <2>4. Typed(v) /\ v.connected = TRUE /\ v.spaces = f /\ RenderRel(u, v)
    <3>1. ASSUME NEW yes \in BOOLEAN, NEW x,
                 x = FilterSpaces(HonourPendingSelect(WithSpaces(u, yes, f)))
          PROVE  /\ Typed(x) /\ x.connected = yes /\ x.spaces = f
                 /\ yes => RenderRel(u, x)
      BY <3>1, RenderListed
    <3> QED BY <2>2, <2>3, <3>1
  <2> QED BY <1>1, <2>1, <2>4
<1>2. CASE answer.result # "ok"
  <2> DEFINE e == NextEpoch(u)
             no == FALSE
             w == [e EXCEPT !.connected = no, !.spaces = NoRows]
  <2>1. v = SelectSpace(w, None)
    BY <1>2 DEF RenderSpaces
  <2>2. /\ Typed(e) /\ SameView(u, e) /\ \A k : SameSlot(u, e, k)
        /\ e.pending = u.pending
        /\ e.detailRequest.space = u.detailRequest.space
        /\ ~e.detailRequest.current
    BY EpochEffect
  <2>0. no \in BOOLEAN /\ no = FALSE
    OBVIOUS
  <2>a. w = WithSpaces(e, no, NoRows)
    BY DEF WithSpaces
  <2> HIDE DEF e, no, w
  <2>3. /\ Typed(w) /\ SameBesides(e, w) /\ \A k : SameSlot(e, w, k)
        /\ w.connected = no /\ w.spaces = NoRows /\ w.selected = e.selected
        /\ w.pendingSelect = e.pendingSelect /\ w.details = e.details
        /\ w.detailRequest = e.detailRequest
    BY <2>0, <2>2, <2>a, NewSpaces, NoRowsIsTyped
  <2>4. Typed(v) /\ SelectRel(w, v, None)
    BY <2>1, <2>3, SelectEffect
  <2>5. None \notin DOMAIN w.spaces
    BY <2>3, NoRowsIsTyped
  <2>6. /\ ~v.connected /\ v.spaces = NoRows /\ v.selected = None
        /\ v.details = NoDetails /\ v.pendingSelect = u.pendingSelect
    BY <2>0, <2>2, <2>3, <2>4, <2>5 DEF SelectRel, SameRest, SameView
  <2>7. SameBesides(u, v)
    BY <2>2, <2>3, <2>4 DEF SelectRel, SameRest, SameBesides, SameView
  <2>8. SameOthers(u, v, "describe")
    BY <2>2, <2>3, <2>4 DEF SelectRel, SameOthers, SameSlot
  <2>9. /\ SameSlot(u, v, "describe")
        /\ v.detailRequest.space = u.detailRequest.space
        /\ ~v.detailRequest.current
    BY <2>2, <2>3, <2>4, <2>5 DEF SelectRel, SameSlot
  <2> QED BY <1>2, <2>4, <2>6, <2>7, <2>8, <2>9, NoRowsIsTyped DEF RenderRel
<1> QED BY <1>1, <1>2

-----------------------------------------------------------------------------
(* The selection and the answers on their way.                             *)

\* The selected space is listed, the details are its, and the details on their
\* way are of the space they were asked for.
Chosen(u) ==
  /\ u.selected \in DOMAIN u.spaces \cup {None}
  /\ ~u.connected => DOMAIN u.spaces = {}
  /\ u.details # NoDetails => u.details.space = u.selected
  /\ u.selected = None => u.details = NoDetails
  /\ Busy(u, "describe") => u.detailRequest.space = Asked(u, "describe").space

Told(u, k) == Busy(u, k) /\ Result(u, k) = "ok"
Body(u, k) == Asked(u, k).answer.body

\* An action has succeeded and the Ui is about to hear of it.
Reported(u) == Told(u, "action")

\* Of what the daemon says, no answer has missed a change: x are the reads that
\* may have.
Fresh(u, x, k) == ~u.closed /\ k \notin x /\ ~Reported(u)

\* The list on screen is the daemon's, or a list is on its way; and one that has
\* been answered is the daemon's unless it will be asked again.
ListTrue(u, d, x) ==
  Fresh(u, x, "list") =>
    /\ ~Busy(u, "list") /\ u.connected => u.spaces = d.spaces
    /\ Told(u, "list") /\ ~u.listAgain => Body(u, "list") = d.spaces

Right(b, d) == b.space \in DOMAIN d.spaces /\ b.row = d.spaces[b.space]

\* The same of the details, which are asked for again when the epoch has changed.
DetailTrue(u, d, x) ==
  Fresh(u, x, "describe") =>
    /\ ~Busy(u, "describe") /\ u.details # NoDetails => Right(u.details, d)
    /\ /\ Told(u, "describe") /\ u.detailRequest.current
       /\ u.detailRequest.space = u.selected
       => Right(Body(u, "describe"), d)

\* The same of the profile and of its copy in the form, which goes with it.
ProfileTrue(u, d, x) ==
  /\ CreateDialog \notin u.dialogs => u.form = "none"
  /\ Fresh(u, x, "profiles") =>
       /\ ~Busy(u, "profiles") => {u.profile, u.form} \subseteq {"none", d.profile}
       /\ Told(u, "profiles") /\ ~u.profilesAgain
            => Body(u, "profiles") = d.profile

Good(u, d, x) ==
  /\ Typed(u) /\ Chosen(u)
  /\ ListTrue(u, d, x) /\ DetailTrue(u, d, x) /\ ProfileTrue(u, d, x)

\* Steps that take no answer: requests are sent, what is on screen of the
\* selection stays or goes with it.
Kept(u, v, k) == SameSlot(u, v, k) \/ Sent(u, v, k)

Follows(u, v) ==
  /\ v.selected \in DOMAIN v.spaces \cup {None}
  /\ ~v.connected => DOMAIN v.spaces = {}
  /\ v.details # NoDetails =>
       /\ v.details = u.details /\ v.selected = u.selected
       /\ v.selected \in DOMAIN v.spaces
  /\ \/ /\ SameSlot(u, v, "describe")
        /\ v.detailRequest.space = u.detailRequest.space
        /\ v.detailRequest.current =>
             u.detailRequest.current /\ u.selected = v.selected
     \/ /\ Sent(u, v, "describe")
        /\ v.detailRequest.space = Asked(v, "describe").space

KeepsProfile(u, v) ==
  /\ v.profile = u.profile /\ v.profilesAgain = u.profilesAgain
  /\ v.form \in {u.form, "none"}
  /\ CreateDialog \notin v.dialogs => v.form = "none"
  /\ Kept(u, v, "profiles")

KeepsList(u, v) ==
  /\ v.spaces = u.spaces /\ v.connected = u.connected
  /\ v.listAgain = u.listAgain /\ Kept(u, v, "list")

LEMMA KeptAnswer ==
  ASSUME NEW u, NEW v, NEW k, Kept(u, v, k)
  PROVE  /\ Told(v, k) => Told(u, k) /\ Body(v, k) = Body(u, k)
         /\ ~Busy(v, k) => ~Busy(u, k)
         /\ SameSlot(u, v, k) => (Told(v, k) <=> Told(u, k))
  BY DEF Kept, SameSlot, Sent, Told, Body, Result

LEMMA KeptFresh ==
  ASSUME NEW u, NEW v, NEW x, NEW k, v.closed = u.closed, Kept(u, v, "action"),
         Fresh(v, x, k)
  PROVE  Fresh(u, x, k)
  BY DEF Kept, SameSlot, Sent, Told, Reported, Fresh, Result

LEMMA ChosenFollows ==
  ASSUME NEW u, NEW v, Typed(v), Chosen(u), Follows(u, v)
  PROVE  Chosen(v)
<1>1. None \notin DOMAIN v.spaces
  BY DomainOfRows, ManagerAssumption DEF None, Typed, ViewOK
<1>2. Busy(v, "describe") => v.detailRequest.space = Asked(v, "describe").space
  BY DEF Follows, Chosen, SameSlot, Sent
<1> QED BY <1>1, <1>2 DEF Follows, Chosen

LEMMA DetailFollows ==
  ASSUME NEW u, NEW v, NEW d, NEW x, DetailTrue(u, d, x), Follows(u, v),
         v.closed = u.closed, Kept(u, v, "action")
  PROVE  DetailTrue(v, d, x)
<1> SUFFICES ASSUME Fresh(v, x, "describe")
             PROVE  /\ ~Busy(v, "describe") /\ v.details # NoDetails
                         => Right(v.details, d)
                    /\ /\ Told(v, "describe") /\ v.detailRequest.current
                       /\ v.detailRequest.space = v.selected
                       => Right(Body(v, "describe"), d)
  BY DEF DetailTrue
<1>1. Fresh(u, x, "describe")
  BY KeptFresh
<1>2. Kept(u, v, "describe")
  BY DEF Follows, Kept
<1>3. ~Busy(v, "describe") => ~Busy(u, "describe")
  BY <1>2, KeptAnswer
<1>4. ASSUME Told(v, "describe") PROVE Told(u, "describe")
            /\ Body(v, "describe") = Body(u, "describe") /\ SameSlot(u, v, "describe")
            /\ ~Sent(u, v, "describe")
  BY <1>2, <1>4, KeptAnswer DEF Kept, Sent, Told
<1> QED BY <1>1, <1>3, <1>4 DEF DetailTrue, Follows

LEMMA ProfileKept ==
  ASSUME NEW u, NEW v, NEW d, NEW x, ProfileTrue(u, d, x), KeepsProfile(u, v),
         v.closed = u.closed, Kept(u, v, "action")
  PROVE  ProfileTrue(v, d, x)
<1>1. Fresh(v, x, "profiles") => Fresh(u, x, "profiles")
  BY KeptFresh
<1>2. /\ Told(v, "profiles") =>
           Told(u, "profiles") /\ Body(v, "profiles") = Body(u, "profiles")
      /\ ~Busy(v, "profiles") => ~Busy(u, "profiles")
  BY KeptAnswer DEF KeepsProfile
<1> QED BY <1>1, <1>2 DEF ProfileTrue, KeepsProfile

LEMMA ListKept ==
  ASSUME NEW u, NEW v, NEW d, NEW x, ListTrue(u, d, x), KeepsList(u, v),
         v.closed = u.closed, Kept(u, v, "action")
  PROVE  ListTrue(v, d, x)
<1>1. Fresh(v, x, "list") => Fresh(u, x, "list")
  BY KeptFresh
<1>2. /\ Told(v, "list") =>
           Told(u, "list") /\ Body(v, "list") = Body(u, "list")
      /\ ~Busy(v, "list") => ~Busy(u, "list")
  BY KeptAnswer DEF KeepsList
<1> QED BY <1>1, <1>2 DEF ListTrue, KeepsList

\* A step of the operator or the timer.
Mild(u, v) ==
  /\ v.closed = u.closed /\ Kept(u, v, "action")
  /\ Follows(u, v) /\ KeepsProfile(u, v) /\ KeepsList(u, v)

LEMMA GoodMild ==
  ASSUME NEW u, NEW v, NEW d, NEW x, Good(u, d, x), Typed(v), Mild(u, v)
  PROVE  Good(v, d, x)
  BY ChosenFollows, DetailFollows, ProfileKept, ListKept DEF Good, Mild

LEMMA SentOrSame ==
  ASSUME NEW u, NEW v, NEW k, SameOthers(u, v, k), v = u \/ Sent(u, v, k)
  PROVE  \A l \in Kinds : Kept(u, v, l)
  BY DEF SameOthers, SameSlot, Kept

\* What is on screen is the same, and details are asked for only as refresh_detail
\* does.
LEMMA SameViewIsMild ==
  ASSUME NEW u, NEW v, Typed(v), Chosen(u), SameView(u, v), \A k \in Kinds : Kept(u, v, k),
         CreateDialog \notin u.dialogs => u.form = "none",
         \/ SameSlot(u, v, "describe") /\ v.detailRequest = u.detailRequest
         \/ Sent(u, v, "describe") /\ v.detailRequest.space = Asked(v, "describe").space
  PROVE  Mild(u, v)
<1>1. None \notin DOMAIN v.spaces
  BY DomainOfRows, ManagerAssumption DEF None, Typed, ViewOK
<1>2. Kept(u, v, "action") /\ Kept(u, v, "profiles") /\ Kept(u, v, "list")
  BY DEF Kinds, Reads
<1>3. Follows(u, v)
  BY <1>1 DEF Follows, Chosen, SameView, SameRest
<1> QED
  BY <1>2, <1>3 DEF Mild, KeepsProfile, KeepsList, SameView, SameRest

LEMMA RefreshGood ==
  ASSUME NEW u, NEW d, NEW x, Good(u, d, x), NEW k \in {"list", "profiles"}
  PROVE  Good(Refresh(u, k), d, x)
<1> DEFINE v == Refresh(u, k)
<1>1. Typed(v)
  BY RefreshTyped DEF Good
<1>2. v = Refresh(u, k)
  OBVIOUS
<1> HIDE DEF v
<1>3. k \in Reads /\ k # "describe" /\ "describe" \in Kinds
  BY DEF Reads, Kinds
<1>4. /\ SameView(u, v) /\ SameOthers(u, v, k) /\ v.detailRequest = u.detailRequest
      /\ v = u \/ Sent(u, v, k)
  BY <1>2, <1>3, RefreshEffect DEF Good, Typed
<1>5. \A l \in Kinds : Kept(u, v, l)
  BY <1>4, SentOrSame
<1>6. SameSlot(u, v, "describe")
  BY <1>3, <1>4 DEF SameOthers
<1>7. Mild(u, v)
  BY <1>1, <1>4, <1>5, <1>6, SameViewIsMild DEF Good, ProfileTrue
<1> QED BY <1>1, <1>7, GoodMild DEF v

LEMMA RefreshDetailGood ==
  ASSUME NEW u, NEW d, NEW x, Good(u, d, x), NEW s \in Ids
  PROVE  Good(RefreshDetail(u, s), d, x)
<1> DEFINE v == RefreshDetail(u, s)
<1>1. Typed(v)
  BY RefreshDetailTyped DEF Good
<1>2. v = RefreshDetail(u, s)
  OBVIOUS
<1> HIDE DEF v
<1>4. /\ SameView(u, v) /\ SameOthers(u, v, "describe")
      /\ v = u \/ (Sent(u, v, "describe") /\ DescribeSent(v, s))
  BY <1>2, RefreshDetailEffect DEF Good, Typed
<1>5. \A l \in Kinds : Kept(u, v, l)
  BY <1>4, SentOrSame
<1>6. \/ SameSlot(u, v, "describe") /\ v.detailRequest = u.detailRequest
      \/ Sent(u, v, "describe") /\ v.detailRequest.space = Asked(v, "describe").space
  BY <1>4 DEF DescribeSent, NewCall, SameSlot
<1>7. Mild(u, v)
  BY <1>1, <1>4, <1>5, <1>6, SameViewIsMild DEF Good, ProfileTrue
<1> QED BY <1>1, <1>7, GoodMild DEF v

LEMMA SendActionGood ==
  ASSUME NEW u, NEW d, NEW x, Good(u, d, x), NEW kind, NEW op \in Actions,
         NEW s, NEW e, NEW p, Creates(op, s, e),
         kind \in {"create", "passphrase"} => s \in Ids,
         kind = "passphrase" => op # "create"
  PROVE  Good(SendAction(u, kind, op, s, e, p), d, x)
<1> DEFINE v == SendAction(u, kind, op, s, e, p)
<1>1. Typed(v)
  BY SendActionTyped DEF Good
<1>2. v = SendAction(u, kind, op, s, e, p)
  OBVIOUS
<1> HIDE DEF v
<1>3. "describe" \in Kinds
  BY DEF Reads, Kinds
<1>4. /\ SameView(u, v) /\ SameOthers(u, v, "action")
      /\ v.detailRequest = u.detailRequest
      /\ v = u \/ Sent(u, v, "action")
  BY <1>2, SendActionEffect DEF Good, Typed
<1>5. \A l \in Kinds : Kept(u, v, l)
  BY <1>4, SentOrSame
<1>6. SameSlot(u, v, "describe")
  BY <1>3, <1>4 DEF SameOthers
<1>7. Mild(u, v)
  BY <1>1, <1>4, <1>5, <1>6, SameViewIsMild DEF Good, ProfileTrue
<1> QED BY <1>1, <1>7, GoodMild DEF v

LEMMA SelectIsMild ==
  ASSUME NEW u, NEW v, Typed(v), Chosen(u), NEW s \in DOMAIN u.spaces \cup {None},
         SelectRel(u, v, s), CreateDialog \notin u.dialogs => u.form = "none"
  PROVE  Mild(u, v)
<1>1. Follows(u, v)
  BY DEF Follows, Chosen, SelectRel, SameRest
<1>2. \A k \in Kinds \ {"describe"} : Kept(u, v, k)
  BY DEF SelectRel, SameOthers, Kept
<1>3. Kept(u, v, "action") /\ Kept(u, v, "profiles") /\ Kept(u, v, "list")
  BY <1>2 DEF Kinds, Reads
<1> QED
  BY <1>1, <1>3 DEF Mild, KeepsProfile, KeepsList, SelectRel, SameRest

LEMMA SelectGood ==
  ASSUME NEW u, NEW d, NEW x, Good(u, d, x), NEW s \in DOMAIN u.spaces \cup {None}
  PROVE  Good(SelectSpace(u, s), d, x)
<1> DEFINE v == SelectSpace(u, s)
<1>1. v = SelectSpace(u, s) /\ s \in Ids \cup {None}
  BY DomainOfRows DEF Good, Typed, ViewOK
<1> HIDE DEF v
<1>2. Typed(v) /\ SelectRel(u, v, s)
  BY <1>1, SelectEffect DEF Good
<1>3. Mild(u, v)
  BY <1>2, SelectIsMild DEF Good, ProfileTrue
<1> QED BY <1>2, <1>3, GoodMild DEF v

LEMMA FilterGood ==
  ASSUME NEW u, NEW d, NEW x, Good(u, d, x)
  PROVE  Good(FilterSpaces(u), d, x)
<1> DEFINE v == FilterSpaces(u)
<1>1. v = FilterSpaces(u)
  OBVIOUS
<1> HIDE DEF v
<1>2. Typed(v)
  BY <1>1, FilterEffect DEF Good
<1>3. PICK s \in Visible(u) \cup {None} : SelectRel(u, v, s)
  BY <1>1, FilterEffect DEF Good
<1>4. s \in DOMAIN u.spaces \cup {None}
  BY DEF Visible
<1>5. Mild(u, v)
  BY <1>2, <1>3, <1>4, SelectIsMild DEF Good, ProfileTrue
<1> QED BY <1>2, <1>5, GoodMild DEF v

\* Dialogs open and close, pages and filters change; requests do not.
LEMMA ChangeGood ==
  ASSUME NEW u, NEW d, NEW x, Good(u, d, x), NEW v, IsUi(v), ViewOK(v),
         v.calls = u.calls, v.latest = u.latest, v.pending = u.pending,
         v.detailRequest = u.detailRequest, v.connected = u.connected,
         v.closed = u.closed, v.selected = u.selected, v.spaces = u.spaces,
         v.details = u.details, v.profile = u.profile,
         v.listAgain = u.listAgain, v.profilesAgain = u.profilesAgain,
         v.form \in {u.form, "none"}, CreateDialog \notin v.dialogs => v.form = "none"
  PROVE  Good(v, d, x)
<1>1. Typed(v) /\ \A k : SameSlot(u, v, k)
  BY KeepRequests DEF Good
<1>2. None \notin DOMAIN u.spaces
  BY DomainOfRows, ManagerAssumption DEF None, Typed, ViewOK, Good
<1>3. Follows(u, v)
  BY <1>1, <1>2 DEF Follows, Good, Chosen
<1>4. \A k : Kept(u, v, k)
  BY <1>1 DEF Kept
<1>5. Mild(u, v)
  BY <1>3, <1>4 DEF Mild, KeepsProfile, KeepsList
<1> QED BY <1>1, <1>5, GoodMild

LEMMA OpenGood ==
  ASSUME NEW u, NEW d, NEW x, Good(u, d, x), NEW dialog, DialogOK(dialog)
  PROVE  Good([u EXCEPT !.dialogs = @ \cup {dialog}], d, x)
<1> DEFINE v == [u EXCEPT !.dialogs = @ \cup {dialog}]
<1>1. v = [u EXCEPT !.dialogs = @ \cup {dialog}]
  OBVIOUS
<1> HIDE DEF v
<1>2. /\ IsUi(v) /\ v.calls = u.calls /\ v.latest = u.latest
      /\ v.pending = u.pending /\ v.detailRequest = u.detailRequest
      /\ v.dialogs = u.dialogs \cup {dialog} /\ v.form = u.form
      /\ v.connected = u.connected /\ v.closed = u.closed
      /\ v.selected = u.selected /\ v.spaces = u.spaces
      /\ v.details = u.details /\ v.profile = u.profile /\ v.page = u.page
      /\ v.listAgain = u.listAgain /\ v.profilesAgain = u.profilesAgain
      /\ v.pendingSelect = u.pendingSelect /\ v.search = u.search
      /\ v.runningOnly = u.runningOnly
  BY <1>1 DEF IsUi, Good, Typed
<1>3. ViewOK(v)
  BY <1>2 DEF ViewOK, Good, Typed
<1>4. CreateDialog \notin v.dialogs => v.form = "none"
  BY <1>2 DEF Good, ProfileTrue
<1> QED BY <1>2, <1>3, <1>4, ChangeGood DEF v

\* The form opens empty.
LEMMA OpenFormGood ==
  ASSUME NEW u, NEW d, NEW x, Good(u, d, x)
  PROVE  Good([u EXCEPT !.dialogs = @ \cup {CreateDialog}, !.form = "none"], d, x)
<1> DEFINE v == [u EXCEPT !.dialogs = @ \cup {CreateDialog}, !.form = "none"]
           c == CreateDialog
<1>1. v = [u EXCEPT !.dialogs = @ \cup {c}, !.form = "none"]
  OBVIOUS
<1>0. DialogOK(c) /\ c = CreateDialog
  BY DEF DialogOK, CreateDialog, Dialog
<1> HIDE DEF v, c
<1>2. /\ IsUi(v) /\ v.calls = u.calls /\ v.latest = u.latest
      /\ v.pending = u.pending /\ v.detailRequest = u.detailRequest
      /\ v.dialogs = u.dialogs \cup {c} /\ v.form = "none"
      /\ v.connected = u.connected /\ v.closed = u.closed
      /\ v.selected = u.selected /\ v.spaces = u.spaces
      /\ v.details = u.details /\ v.profile = u.profile /\ v.page = u.page
      /\ v.listAgain = u.listAgain /\ v.profilesAgain = u.profilesAgain
      /\ v.pendingSelect = u.pendingSelect /\ v.search = u.search
      /\ v.runningOnly = u.runningOnly
  BY <1>1 DEF IsUi, Good, Typed
<1>3. ViewOK(v)
  BY <1>0, <1>2 DEF ViewOK, Good, Typed
<1> QED BY <1>2, <1>3, ChangeGood DEF v

LEMMA CloseGood ==
  ASSUME NEW u, NEW d, NEW x, Good(u, d, x), NEW dialog
  PROVE  Good(Close(u, dialog), d, x)
<1> DEFINE v == Close(u, dialog)
           f == IF dialog = CreateDialog THEN "none" ELSE u.form
<1>1. v = [u EXCEPT !.dialogs = @ \ {dialog}, !.form = f]
  BY DEF Close
<1>0. f \in {u.form, "none"} /\ (f = "none" \/ dialog # CreateDialog)
  OBVIOUS
<1> HIDE DEF v, f
<1>2. /\ IsUi(v) /\ v.calls = u.calls /\ v.latest = u.latest
      /\ v.pending = u.pending /\ v.detailRequest = u.detailRequest
      /\ v.dialogs = u.dialogs \ {dialog} /\ v.form = f
      /\ v.connected = u.connected /\ v.closed = u.closed
      /\ v.selected = u.selected /\ v.spaces = u.spaces
      /\ v.details = u.details /\ v.profile = u.profile /\ v.page = u.page
      /\ v.listAgain = u.listAgain /\ v.profilesAgain = u.profilesAgain
      /\ v.pendingSelect = u.pendingSelect /\ v.search = u.search
      /\ v.runningOnly = u.runningOnly
  BY <1>1 DEF IsUi, Good, Typed
<1>3. ViewOK(v)
  BY <1>0, <1>2 DEF ViewOK, Good, Typed
<1>4. CreateDialog \notin v.dialogs => v.form = "none"
  BY <1>0, <1>2 DEF Good, ProfileTrue
<1> QED BY <1>0, <1>2, <1>3, <1>4, ChangeGood DEF v

LEMMA AskOrSendGood ==
  ASSUME NEW u, NEW d, NEW x, Good(u, d, x), NEW op \in Actions \ {"create"},
         NEW s \in Ids, NEW e
  PROVE  Good(AskOrSend(u, op, s, e), d, x)
<1>1. CASE e
  <2>1. PICK yes \in {TRUE} : TRUE
    OBVIOUS
  <2> DEFINE p == Dialog("passphrase", op, s, yes)
  <2>3. AskOrSend(u, op, s, e) = [u EXCEPT !.dialogs = @ \cup {p}]
    BY <1>1, <2>1 DEF AskOrSend
  <2>4. p.type = "passphrase" /\ p.op = op /\ p.space = s
    BY DEF Dialog
  <2> HIDE DEF p
  <2>2. DialogOK(p)
    BY <2>4 DEF DialogOK
  <2> QED BY <2>2, <2>3, OpenGood
<1>2. CASE ~e
  <2>1. AskOrSend(u, op, s, e) = SendAction(u, "other", op, s, FALSE, FALSE)
    BY <1>2 DEF AskOrSend
  <2> QED BY <2>1, SendActionGood DEF Creates
<1> QED BY <1>1, <1>2

-----------------------------------------------------------------------------
(* Answers.                                                                *)

Without(u, k) ==
  [u EXCEPT !.calls = Restrict(@, DOMAIN @ \ {Slot(k)})]

LEMMA WithoutCall ==
  ASSUME NEW u, Typed(u), NEW k \in Kinds, NEW v,
         v.calls = Restrict(u.calls, DOMAIN u.calls \ {Slot(k)})
  PROVE  /\ SameOthers(u, v, k) /\ ~Busy(v, k) /\ IsFcn(v.calls)
         /\ DOMAIN v.calls = DOMAIN u.calls \ {Slot(k)}
<1>1. /\ DOMAIN v.calls = DOMAIN u.calls \ {Slot(k)} /\ IsFcn(v.calls)
      /\ \A i \in DOMAIN u.calls \ {Slot(k)} : v.calls[i] = u.calls[i]
  BY DEF Restrict, IsFcn
<1>2. ASSUME NEW l \in Kinds \ {k} PROVE SameSlot(u, v, l)
  <2>1. Slot(l) # Slot(k)
    BY SlotsDiffer
  <2> QED BY <1>1, <2>1 DEF SameSlot, Busy, Asked
<1> QED BY <1>1, <1>2 DEF SameOthers, Busy

LEMMA TakenRead ==
  ASSUME NEW u, Typed(u), NEW k \in Reads, NEW v, IsUi(v), ViewOK(v),
         v.calls = Restrict(u.calls, DOMAIN u.calls \ {Slot(k)}),
         v.latest = [u.latest EXCEPT ![k] = NoId], v.pending = u.pending
  PROVE  Typed(v) /\ SameOthers(u, v, k) /\ ~Busy(v, k)
<1>0. k \in Kinds /\ "action" \in Kinds \ {k}
  BY DEF Kinds, Reads
<1>1. /\ SameOthers(u, v, k) /\ ~Busy(v, k) /\ IsFcn(v.calls)
      /\ DOMAIN v.calls = DOMAIN u.calls \ {Slot(k)}
  BY <1>0, WithoutCall
<1>2. /\ v.latest = [l \in Reads |-> IF l = k THEN NoId ELSE u.latest[l]]
      /\ v.latest = [l \in Reads |-> v.latest[l]]
  BY DEF Typed, Owned
<1>3. \A l \in Reads : v.latest[l] = IF Busy(v, l) THEN Slot(l) ELSE NoId
  BY <1>1, <1>2 DEF Typed, Owned, SameOthers, SameSlot, Kinds
<1>4. Busy(v, "action") <=> Busy(u, "action")
  BY <1>0, <1>1 DEF SameOthers, SameSlot
<1>5. Owned(v)
  BY <1>1, <1>2, <1>3, <1>4 DEF Typed, Owned
<1>6. CallsOK(v)
  BY <1>1 DEF Typed, CallsOK, SameOthers, SameSlot
<1> QED BY <1>1, <1>5, <1>6 DEF Typed

LEMMA TakenAction ==
  ASSUME NEW u, Typed(u), NEW v, IsUi(v), ViewOK(v),
         v.calls = Restrict(u.calls, DOMAIN u.calls \ {Slot("action")}),
         v.latest = u.latest, v.pending = NoAction
  PROVE  Typed(v) /\ SameOthers(u, v, "action") /\ ~Busy(v, "action")
<1>0. "action" \in Kinds /\ "action" \notin Reads
  BY DEF Kinds, Reads
<1>1. /\ SameOthers(u, v, "action") /\ ~Busy(v, "action") /\ IsFcn(v.calls)
      /\ DOMAIN v.calls = DOMAIN u.calls \ {Slot("action")}
  BY <1>0, WithoutCall
<1>3. \A l \in Reads : v.latest[l] = IF Busy(v, l) THEN Slot(l) ELSE NoId
  BY <1>0, <1>1 DEF Typed, Owned, SameOthers, SameSlot, Kinds
<1>4. v.latest = [l \in Reads |-> v.latest[l]]
  BY DEF Typed, Owned
<1>5. Owned(v)
  BY <1>1, <1>3, <1>4 DEF Typed, Owned
<1>6. CallsOK(v)
  BY <1>1 DEF Typed, CallsOK, SameOthers, SameSlot
<1>7. PendingOK(v.pending)
  BY DEF PendingOK, NoAction
<1> QED BY <1>1, <1>5, <1>6, <1>7 DEF Typed

SameAwaited(u, v) == v.pendingSelect = u.pendingSelect

\* An answer makes a space just created awaited, or leaves alone which one is, or
\* it has come and is selected.
Awaited(u, v) ==
  v.pendingSelect \in {u.pendingSelect} \cup Ids \/ v.selected = u.pendingSelect

\* A step that touches neither dialogs nor actions, and asks at most for a list.
Quiet(u, v) ==
  /\ v.spaces = u.spaces /\ v.connected = u.connected
  /\ v.dialogs = u.dialogs /\ v.pending = u.pending
  /\ v.listAgain = u.listAgain
  /\ SameSlot(u, v, "action") /\ Kept(u, v, "list")

\* The list is taken: it is rendered, or asked for again.
ListTaken(u, v, answer) ==
  /\ v.dialogs = u.dialogs /\ v.pending = u.pending
  /\ SameSlot(u, v, "action") /\ ~Told(v, "list")
  /\ \/ v.spaces = u.spaces /\ v.connected = u.connected
     \/ /\ ~u.listAgain /\ answer.result = "ok"
        /\ v.spaces = answer.body /\ v.connected
     \/ v.spaces = NoRows /\ ~v.connected

LEMMA DoneListGood ==
  ASSUME NEW u, NEW d, NEW x, Good(u, d, x), Busy(u, "list"), NEW answer,
         answer = Asked(u, "list").answer
  PROVE  /\ Good(DoneList(Without(u, "list"), answer), d, x)
         /\ Awaited(u, DoneList(Without(u, "list"), answer))
         /\ ListTaken(u, DoneList(Without(u, "list"), answer), answer)
<1> DEFINE t == Without(u, "list")
           w == [t EXCEPT !.latest["list"] = NoId, !.listAgain = FALSE]
           v == DoneList(t, answer)
<1>1. /\ IsUi(t) /\ t.latest = u.latest /\ t.listAgain = u.listAgain
      /\ t.calls = Restrict(u.calls, DOMAIN u.calls \ {Slot("list")})
      /\ t.pending = u.pending /\ t.detailRequest = u.detailRequest
      /\ t.profilesAgain = u.profilesAgain /\ t.closed = u.closed
      /\ t.connected = u.connected /\ t.page = u.page /\ t.selected = u.selected
      /\ t.pendingSelect = u.pendingSelect /\ t.spaces = u.spaces
      /\ t.search = u.search /\ t.runningOnly = u.runningOnly
      /\ t.details = u.details /\ t.profile = u.profile /\ t.form = u.form
      /\ t.dialogs = u.dialogs
  BY DEF Without, IsUi, Good, Typed
<1>2. v = IF t.listAgain THEN Refresh(w, "list") ELSE RenderSpaces(w, answer)
  BY DEF DoneList
<1>3. w = [t EXCEPT !.latest["list"] = NoId, !.listAgain = FALSE]
  OBVIOUS
<1> HIDE DEF t, w, v
<1>4. /\ IsUi(w) /\ w.latest = [u.latest EXCEPT !["list"] = NoId]
      /\ ~w.listAgain /\ w.listAgain \in BOOLEAN /\ w.calls = t.calls
      /\ w.pending = u.pending /\ w.detailRequest = u.detailRequest
      /\ w.profilesAgain = u.profilesAgain /\ w.closed = u.closed
      /\ w.connected = u.connected /\ w.page = u.page /\ w.selected = u.selected
      /\ w.pendingSelect = u.pendingSelect /\ w.spaces = u.spaces
      /\ w.search = u.search /\ w.runningOnly = u.runningOnly
      /\ w.details = u.details /\ w.profile = u.profile /\ w.form = u.form
      /\ w.dialogs = u.dialogs
  BY <1>1, <1>3 DEF IsUi
<1>5. ViewOK(w)
  BY <1>4 DEF ViewOK, Good, Typed
<1>6. Typed(w) /\ SameOthers(u, w, "list") /\ ~Busy(w, "list")
  BY <1>1, <1>4, <1>5, TakenRead DEF Good, Reads
<1>7. /\ SameSlot(u, w, "describe") /\ SameSlot(u, w, "profiles")
      /\ SameSlot(u, w, "action")
  BY <1>6 DEF SameOthers, Kinds, Reads
<1>8. None \notin DOMAIN u.spaces
  BY DomainOfRows, ManagerAssumption DEF None, Typed, ViewOK, Good
<1>9. ProfileTrue(u, d, x) /\ DetailTrue(u, d, x) /\ Chosen(u)
  BY DEF Good
<1>10. CASE u.listAgain
  <2>1. v = Refresh(w, "list")
    BY <1>1, <1>2, <1>10
  <2>2. Typed(v)
    BY <1>6, <2>1, RefreshTyped
  <2>3. /\ SameView(w, v) /\ SameOthers(w, v, "list")
        /\ v.detailRequest = w.detailRequest
        /\ (v = w /\ w.closed) \/ Sent(w, v, "list")
    BY <1>6, <2>1, RefreshEffect DEF Typed, Reads
  <2>4. /\ SameSlot(w, v, "describe") /\ SameSlot(w, v, "profiles")
        /\ SameSlot(w, v, "action")
    BY <2>3 DEF SameOthers, Kinds, Reads
  <2>5. /\ SameSlot(u, v, "describe") /\ SameSlot(u, v, "profiles")
        /\ SameSlot(u, v, "action")
    BY <1>7, <2>4 DEF SameSlot
  <2>6. /\ v.closed = u.closed /\ v.spaces = u.spaces /\ v.selected = u.selected
        /\ v.connected = u.connected /\ v.details = u.details
        /\ v.profile = u.profile /\ v.form = u.form /\ v.dialogs = u.dialogs
        /\ v.profilesAgain = u.profilesAgain /\ v.detailRequest = u.detailRequest
    BY <1>4, <2>3 DEF SameView, SameRest
  <2>7. Follows(u, v)
    BY <1>8, <1>9, <2>5, <2>6 DEF Follows, Chosen
  <2>8. KeepsProfile(u, v) /\ Kept(u, v, "action")
    BY <1>9, <2>5, <2>6 DEF KeepsProfile, Kept, ProfileTrue
  <2>9. Chosen(v) /\ DetailTrue(v, d, x) /\ ProfileTrue(v, d, x)
    BY <1>9, <2>2, <2>6, <2>7, <2>8, ChosenFollows, DetailFollows, ProfileKept
  <2>10. ListTrue(v, d, x)
    BY <1>4, <2>3, <2>6 DEF ListTrue, Fresh, Sent, Told
  <2>11. Awaited(u, v)
    BY <1>4, <2>3 DEF SameView, SameRest, Awaited
  <2>12. v.pending = w.pending
    BY <1>6, <2>1, RefreshEffect DEF Typed, Reads
  <2>13. ~Told(v, "list")
    BY <1>6, <2>3 DEF Told, Sent
  <2>14. ListTaken(u, v, answer)
    BY <1>4, <2>5, <2>6, <2>12, <2>13 DEF ListTaken
  <2> QED BY <2>2, <2>9, <2>10, <2>11, <2>14 DEF Good, v, t
<1>11. CASE ~u.listAgain
  <2>1. v = RenderSpaces(w, answer)
    BY <1>1, <1>2, <1>11
  <2>2. answer.result = "ok" => answer.body \in Rows
    BY DEF Good, Typed, CallsOK, CallOK, Kinds, Reads
  <2>3. /\ Typed(v) /\ RenderRel(w, v)
        /\ IF answer.result = "ok" THEN v.connected /\ v.spaces = answer.body
           ELSE ~v.connected /\ v.spaces = NoRows
    BY <1>6, <2>1, <2>2, RenderEffect
  <2>4. /\ v.closed = u.closed /\ v.profile = u.profile /\ v.form = u.form
        /\ v.dialogs = u.dialogs /\ v.profilesAgain = u.profilesAgain
    BY <1>4, <2>3 DEF RenderRel, SameBesides
  <2>5. /\ SameSlot(w, v, "profiles") /\ SameSlot(w, v, "action")
        /\ SameSlot(w, v, "list")
    BY <2>3 DEF RenderRel, SameOthers, Kinds, Reads
  <2>6. SameSlot(u, v, "profiles") /\ SameSlot(u, v, "action") /\ ~Busy(v, "list")
    BY <1>6, <1>7, <2>5 DEF SameSlot
  <2>7. Follows(u, v)
    <3>1. SameSlot(w, v, "describe") => SameSlot(u, v, "describe")
      BY <1>7 DEF SameSlot
    <3>2. Sent(w, v, "describe") => Sent(u, v, "describe")
      BY <1>4, <1>7 DEF SameSlot, Sent
    <3> QED BY <1>4, <2>3, <3>1, <3>2 DEF RenderRel, Follows
  <2>8. KeepsProfile(u, v) /\ Kept(u, v, "action")
    BY <1>9, <2>4, <2>6 DEF KeepsProfile, Kept, ProfileTrue
  <2>9. Chosen(v) /\ DetailTrue(v, d, x) /\ ProfileTrue(v, d, x)
    BY <1>9, <2>3, <2>4, <2>7, <2>8, ChosenFollows, DetailFollows, ProfileKept
  <2>10. ListTrue(v, d, x)
    <3> SUFFICES ASSUME Fresh(v, x, "list"), v.connected PROVE v.spaces = d.spaces
      BY <2>6 DEF ListTrue, Told
    <3>1. Fresh(u, x, "list")
      BY <2>4, <2>8, KeptFresh
    <3>2. answer.result = "ok" /\ v.spaces = answer.body
      BY <2>3
    <3>3. Told(u, "list") /\ Body(u, "list") = answer.body
      BY <3>2 DEF Told, Result, Body
    <3> QED BY <1>11, <3>1, <3>2, <3>3 DEF Good, ListTrue
  <2>11. Awaited(u, v)
    BY <1>4, <2>3 DEF RenderRel, Awaited
  <2>12. v.pending = u.pending /\ ~Told(v, "list")
    BY <1>4, <2>3, <2>6 DEF RenderRel, SameBesides, Told
  <2>13. ListTaken(u, v, answer)
    BY <1>11, <2>3, <2>4, <2>6, <2>12 DEF ListTaken
  <2> QED BY <2>3, <2>9, <2>10, <2>11, <2>13 DEF Good, v, t
<1> QED BY <1>10, <1>11 DEF Good, Typed, ViewOK

LEMMA DoneProfilesGood ==
  ASSUME NEW u, NEW d, NEW x, Good(u, d, x), Busy(u, "profiles"), NEW answer,
         answer = Asked(u, "profiles").answer
  PROVE  /\ Good(DoneProfiles(Without(u, "profiles"), answer), d, x)
         /\ Awaited(u, DoneProfiles(Without(u, "profiles"), answer))
         /\ Quiet(u, DoneProfiles(Without(u, "profiles"), answer))
<1> DEFINE t == Without(u, "profiles")
           w == [t EXCEPT !.latest["profiles"] = NoId, !.profilesAgain = FALSE]
           v == DoneProfiles(t, answer)
<1>1. /\ IsUi(t) /\ t.latest = u.latest /\ t.listAgain = u.listAgain
      /\ t.calls = Restrict(u.calls, DOMAIN u.calls \ {Slot("profiles")})
      /\ t.pending = u.pending /\ t.detailRequest = u.detailRequest
      /\ t.profilesAgain = u.profilesAgain /\ t.closed = u.closed
      /\ t.connected = u.connected /\ t.page = u.page /\ t.selected = u.selected
      /\ t.pendingSelect = u.pendingSelect /\ t.spaces = u.spaces
      /\ t.search = u.search /\ t.runningOnly = u.runningOnly
      /\ t.details = u.details /\ t.profile = u.profile /\ t.form = u.form
      /\ t.dialogs = u.dialogs
  BY DEF Without, IsUi, Good, Typed
<1>2. v = IF t.profilesAgain THEN Refresh(w, "profiles")
          ELSE RenderProfiles(w, answer)
  BY DEF DoneProfiles
<1>3. w = [t EXCEPT !.latest["profiles"] = NoId, !.profilesAgain = FALSE]
  OBVIOUS
<1> HIDE DEF t, w, v
<1>4. /\ IsUi(w) /\ w.latest = [u.latest EXCEPT !["profiles"] = NoId]
      /\ ~w.profilesAgain /\ w.profilesAgain \in BOOLEAN /\ w.calls = t.calls
      /\ w.pending = u.pending /\ w.detailRequest = u.detailRequest
      /\ w.listAgain = u.listAgain /\ w.closed = u.closed
      /\ w.connected = u.connected /\ w.page = u.page /\ w.selected = u.selected
      /\ w.pendingSelect = u.pendingSelect /\ w.spaces = u.spaces
      /\ w.search = u.search /\ w.runningOnly = u.runningOnly
      /\ w.details = u.details /\ w.profile = u.profile /\ w.form = u.form
      /\ w.dialogs = u.dialogs
  BY <1>1, <1>3 DEF IsUi
<1>5. ViewOK(w)
  BY <1>4 DEF ViewOK, Good, Typed
<1>6. Typed(w) /\ SameOthers(u, w, "profiles") /\ ~Busy(w, "profiles")
  BY <1>1, <1>4, <1>5, TakenRead DEF Good, Reads
<1>7. /\ SameSlot(u, w, "describe") /\ SameSlot(u, w, "list")
      /\ SameSlot(u, w, "action")
  BY <1>6 DEF SameOthers, Kinds, Reads
<1>8. None \notin DOMAIN u.spaces
  BY DomainOfRows, ManagerAssumption DEF None, Typed, ViewOK, Good
<1>9. ListTrue(u, d, x) /\ DetailTrue(u, d, x) /\ Chosen(u)
  BY DEF Good
<1>10. ASSUME Typed(v), v.closed = u.closed, v.spaces = u.spaces,
              v.selected = u.selected, v.connected = u.connected,
              v.details = u.details, v.listAgain = u.listAgain,
              v.detailRequest = u.detailRequest,
              v.pendingSelect = u.pendingSelect, v.pending = u.pending,
              v.dialogs = u.dialogs,
              SameSlot(w, v, "describe"), SameSlot(w, v, "list"),
              SameSlot(w, v, "action"), ProfileTrue(v, d, x)
       PROVE  Good(v, d, x) /\ Awaited(u, v) /\ Quiet(u, v)
  <2>1. /\ SameSlot(u, v, "describe") /\ SameSlot(u, v, "list")
        /\ SameSlot(u, v, "action")
    BY <1>7, <1>10 DEF SameSlot
  <2>2. Follows(u, v)
    BY <1>8, <1>9, <1>10, <2>1 DEF Follows, Chosen
  <2>3. KeepsList(u, v) /\ Kept(u, v, "action")
    BY <1>10, <2>1 DEF KeepsList, Kept
  <2>4. Chosen(v) /\ DetailTrue(v, d, x) /\ ListTrue(v, d, x)
    BY <1>9, <1>10, <2>2, <2>3, ChosenFollows, DetailFollows, ListKept
  <2>5. Quiet(u, v)
    BY <1>10, <2>1, <2>3 DEF Quiet, KeepsList
  <2> QED BY <1>10, <2>4, <2>5 DEF Good, Awaited
<1>11. CASE u.profilesAgain
  <2>1. v = Refresh(w, "profiles")
    BY <1>1, <1>2, <1>11
  <2>2. Typed(v)
    BY <1>6, <2>1, RefreshTyped
  <2>3. /\ SameView(w, v) /\ SameOthers(w, v, "profiles")
        /\ v.detailRequest = w.detailRequest /\ v.pending = w.pending
        /\ (v = w /\ w.closed) \/ Sent(w, v, "profiles")
    BY <1>6, <2>1, RefreshEffect DEF Typed, Reads
  <2>4. /\ SameSlot(w, v, "describe") /\ SameSlot(w, v, "list")
        /\ SameSlot(w, v, "action")
    BY <2>3 DEF SameOthers, Kinds, Reads
  <2>5. /\ v.closed = u.closed /\ v.spaces = u.spaces /\ v.selected = u.selected
        /\ v.connected = u.connected /\ v.details = u.details
        /\ v.profile = u.profile /\ v.form = u.form /\ v.dialogs = u.dialogs
        /\ v.listAgain = u.listAgain /\ v.detailRequest = u.detailRequest
        /\ v.pendingSelect = u.pendingSelect
    BY <1>4, <2>3 DEF SameView, SameRest
  <2>p. v.pending = u.pending
    BY <1>4, <2>3
  <2>6. ProfileTrue(v, d, x)
    BY <1>4, <2>3, <2>5 DEF Good, ProfileTrue, Fresh, Sent, Told
  <2> QED BY <1>10, <2>2, <2>4, <2>5, <2>6, <2>p DEF v, t
<1>12. CASE ~u.profilesAgain
  <2> DEFINE seen == IF answer.result = "ok" THEN answer.body ELSE "none"
             form == IF CreateDialog \in w.dialogs THEN seen ELSE w.form
  <2>1. v = [w EXCEPT !.profile = seen, !.form = form]
    BY <1>1, <1>2, <1>12 DEF RenderProfiles
  <2>2. answer.result = "ok" => answer.body \in {"unbuilt", "ready"}
    BY DEF Good, Typed, CallsOK, CallOK, Kinds, Reads
  <2>3. /\ seen \in {"none", "unbuilt", "ready"}
        /\ form \in {"none", "unbuilt", "ready"}
        /\ CreateDialog \notin u.dialogs => form = "none"
        /\ form \in {"none", seen}
    BY <1>4, <1>5, <2>2 DEF ViewOK, Good, ProfileTrue
  <2>4. seen # "none" => answer.result = "ok" /\ seen = answer.body
    OBVIOUS
  <2> HIDE DEF seen, form
  <2>5. /\ IsUi(v) /\ v.calls = w.calls /\ v.latest = w.latest
        /\ v.pending = w.pending /\ v.detailRequest = u.detailRequest
        /\ v.closed = u.closed /\ v.spaces = u.spaces /\ v.selected = u.selected
        /\ v.connected = u.connected /\ v.details = u.details
        /\ v.profile = seen /\ v.form = form /\ v.dialogs = u.dialogs
        /\ v.listAgain = u.listAgain /\ v.page = u.page
        /\ v.profilesAgain = w.profilesAgain
        /\ v.pendingSelect = u.pendingSelect /\ v.search = u.search
        /\ v.runningOnly = u.runningOnly
    BY <1>4, <2>1 DEF IsUi
  <2>6. ViewOK(v)
    BY <1>4, <2>3, <2>5 DEF ViewOK, Good, Typed
  <2>7. Typed(v) /\ \A k : SameSlot(w, v, k)
    BY <1>6, <2>5, <2>6, KeepRequests
  <2>8. ProfileTrue(v, d, x)
    <3>1. ~Busy(v, "profiles")
      BY <1>6, <2>7 DEF SameSlot
    <3> SUFFICES ASSUME Fresh(v, x, "profiles")
                 PROVE  {seen, form} \subseteq {"none", d.profile}
      BY <2>3, <2>5, <3>1 DEF ProfileTrue, Told
    <3>2. Fresh(u, x, "profiles")
      BY <1>7, <2>5, <2>7, KeptFresh DEF Kept, SameSlot
    <3>3. ASSUME seen # "none" PROVE seen = d.profile
      <4>1. Told(u, "profiles") /\ Body(u, "profiles") = answer.body
        BY <2>4, <3>3 DEF Told, Result, Body
      <4> QED BY <1>12, <2>4, <3>2, <3>3, <4>1 DEF Good, ProfileTrue
    <3> QED BY <2>3, <3>3
  <2>9. v.pending = u.pending
    BY <1>4, <2>5
  <2> QED BY <1>10, <2>5, <2>7, <2>8, <2>9 DEF v, t
<1> QED BY <1>11, <1>12 DEF Good, Typed, ViewOK

LEMMA DoneDetailGood ==
  ASSUME NEW u, NEW d, NEW x, Good(u, d, x), Busy(u, "describe"), NEW answer,
         answer = Asked(u, "describe").answer
  PROVE  /\ Good(DoneDetail(Without(u, "describe"), answer), d, x)
         /\ Awaited(u, DoneDetail(Without(u, "describe"), answer))
         /\ Quiet(u, DoneDetail(Without(u, "describe"), answer))
<1> DEFINE t == Without(u, "describe")
           w == [t EXCEPT !.latest["describe"] = NoId,
                          !.detailRequest = NoDetailRequest]
           v == DoneDetail(t, answer)
           current == t.detailRequest.current /\ t.detailRequest.space = t.selected
<1>1. /\ IsUi(t) /\ t.latest = u.latest /\ t.listAgain = u.listAgain
      /\ t.calls = Restrict(u.calls, DOMAIN u.calls \ {Slot("describe")})
      /\ t.pending = u.pending /\ t.detailRequest = u.detailRequest
      /\ t.profilesAgain = u.profilesAgain /\ t.closed = u.closed
      /\ t.connected = u.connected /\ t.page = u.page /\ t.selected = u.selected
      /\ t.pendingSelect = u.pendingSelect /\ t.spaces = u.spaces
      /\ t.search = u.search /\ t.runningOnly = u.runningOnly
      /\ t.details = u.details /\ t.profile = u.profile /\ t.form = u.form
      /\ t.dialogs = u.dialogs
  BY DEF Without, IsUi, Good, Typed
<1>2. v = CASE ~t.connected -> w
            [] t.connected /\ current -> RenderDetail(w, answer)
            [] t.connected /\ ~current /\ t.selected # None ->
                 RefreshDetail(w, t.selected)
            [] OTHER -> w
  BY DEF DoneDetail
<1>3. w = [t EXCEPT !.latest["describe"] = NoId,
                    !.detailRequest = NoDetailRequest]
  OBVIOUS
<1>c. current <=> u.detailRequest.current /\ u.detailRequest.space = u.selected
  BY <1>1
<1> HIDE DEF t, w, v, current
<1>4. /\ IsUi(w) /\ w.latest = [u.latest EXCEPT !["describe"] = NoId]
      /\ w.calls = t.calls /\ w.detailRequest = NoDetailRequest
      /\ w.pending = u.pending /\ w.profilesAgain = u.profilesAgain
      /\ w.listAgain = u.listAgain /\ w.closed = u.closed
      /\ w.connected = u.connected /\ w.page = u.page /\ w.selected = u.selected
      /\ w.pendingSelect = u.pendingSelect /\ w.spaces = u.spaces
      /\ w.search = u.search /\ w.runningOnly = u.runningOnly
      /\ w.details = u.details /\ w.profile = u.profile /\ w.form = u.form
      /\ w.dialogs = u.dialogs
  BY <1>1, <1>3 DEF IsUi
<1>d. NoDetailRequest \in DetailRequests
  BY DEF NoDetailRequest, DetailRequests
<1>5. ViewOK(w)
  BY <1>4, <1>d DEF ViewOK, Good, Typed
<1>6. Typed(w) /\ SameOthers(u, w, "describe") /\ ~Busy(w, "describe")
  BY <1>1, <1>4, <1>5, TakenRead DEF Good, Reads
<1>7. /\ SameSlot(u, w, "profiles") /\ SameSlot(u, w, "list")
      /\ SameSlot(u, w, "action")
  BY <1>6 DEF SameOthers, Kinds, Reads
<1>8. None \notin DOMAIN u.spaces
  BY DomainOfRows, ManagerAssumption DEF None, Typed, ViewOK, Good
<1>9. ListTrue(u, d, x) /\ ProfileTrue(u, d, x) /\ Chosen(u)
  BY DEF Good
<1>10. ASSUME Typed(v), SameRest(u, v), v.pending = u.pending,
              SameSlot(w, v, "profiles"), SameSlot(w, v, "list"),
              SameSlot(w, v, "action"), Chosen(v), DetailTrue(v, d, x)
       PROVE  Good(v, d, x) /\ Awaited(u, v) /\ Quiet(u, v)
  <2>1. /\ SameSlot(u, v, "profiles") /\ SameSlot(u, v, "list")
        /\ SameSlot(u, v, "action")
    BY <1>7, <1>10 DEF SameSlot
  <2>2. KeepsList(u, v) /\ Kept(u, v, "action") /\ KeepsProfile(u, v)
    BY <1>9, <1>10, <2>1 DEF KeepsList, KeepsProfile, Kept, SameRest, ProfileTrue
  <2>3. ListTrue(v, d, x) /\ ProfileTrue(v, d, x)
    BY <1>9, <1>10, <2>2, ListKept, ProfileKept DEF SameRest
  <2>4. Quiet(u, v)
    BY <1>10, <2>1, <2>2 DEF Quiet, KeepsList, SameRest
  <2> QED BY <1>10, <2>3, <2>4 DEF Good, Awaited, SameRest
<1>r. SameRest(u, w)
  BY <1>4 DEF SameRest
<1>11. CASE ~u.connected \/ (u.connected /\ ~current /\ u.selected = None)
  <2>1. v = w
    BY <1>1, <1>2, <1>11
  <2>2. u.selected = None /\ u.details = NoDetails
    BY <1>9, <1>11 DEF Chosen
  <2>3. Chosen(w)
    BY <1>4, <1>6, <1>9 DEF Chosen
  <2>4. DetailTrue(w, d, x)
    BY <1>4, <1>6, <2>2 DEF DetailTrue, Told
  <2>5. v.pending = u.pending
    BY <1>4, <2>1
  <2> QED BY <1>6, <1>10, <1>r, <2>1, <2>3, <2>4, <2>5 DEF SameSlot, v, t
<1>12. CASE u.connected /\ current
  <2> DEFINE b == IF answer.result = "ok" THEN answer.body ELSE NoDetails
  <2>1. v = [w EXCEPT !.details = b]
    BY <1>1, <1>2, <1>12 DEF RenderDetail
  <2>2. /\ Asked(u, "describe").space = u.selected /\ u.selected \in Ids
        /\ answer.result = "ok" => answer.body \in [space : {u.selected}, row : Row]
    BY <1>9, <1>12, <1>c DEF Good, Typed, CallsOK, CallOK, Kinds, Reads, Chosen
  <2>3. /\ b \in [space : Ids, row : Row] \cup {NoDetails}
        /\ b # NoDetails => b.space = u.selected
    BY <2>2
  <2>4. b # NoDetails => answer.result = "ok" /\ b = answer.body
    OBVIOUS
  <2> HIDE DEF b
  <2>5. /\ IsUi(v) /\ v.calls = w.calls /\ v.latest = w.latest
        /\ v.pending = w.pending /\ v.detailRequest = w.detailRequest
        /\ SameRest(w, v) /\ v.selected = u.selected /\ v.details = b
    BY <1>4, <2>1 DEF IsUi, SameRest
  <2>6. ViewOK(v)
    BY <1>5, <2>2, <2>3, <2>5 DEF ViewOK, SameRest
  <2>7. Typed(v) /\ \A k : SameSlot(w, v, k)
    BY <1>6, <2>5, <2>6, KeepRequests
  <2>8. ~Busy(v, "describe") /\ SameRest(u, v)
    BY <1>6, <1>r, <2>5, <2>7 DEF SameSlot, SameRest
  <2>9. Chosen(v)
    <3>1. u.selected # None
      BY <2>2, ManagerAssumption DEF None
    <3> QED BY <1>9, <2>3, <2>5, <2>8, <3>1 DEF Chosen, SameRest
  <2>10. DetailTrue(v, d, x)
    <3> SUFFICES ASSUME Fresh(v, x, "describe"), b # NoDetails PROVE Right(b, d)
      BY <2>5, <2>8 DEF DetailTrue, Told
    <3>1. Fresh(u, x, "describe")
      BY <1>7, <2>7, <2>8, KeptFresh DEF Kept, SameSlot, SameRest
    <3>2. Told(u, "describe") /\ Body(u, "describe") = b
      BY <2>4 DEF Told, Result, Body
    <3> QED BY <1>12, <1>c, <3>1, <3>2 DEF Good, DetailTrue
  <2>11. v.pending = u.pending
    BY <1>4, <2>5
  <2> QED BY <1>10, <2>7, <2>8, <2>9, <2>10, <2>11 DEF v, t
<1>13. CASE u.connected /\ ~current /\ u.selected # None
  <2>1. v = RefreshDetail(w, w.selected) /\ w.selected \in Ids
    BY <1>1, <1>2, <1>4, <1>13 DEF Good, Typed, ViewOK
  <2>2. Typed(v)
    BY <1>6, <2>1, RefreshDetailTyped
  <2>3. /\ SameView(w, v) /\ SameOthers(w, v, "describe")
        /\ \/ v = w /\ w.closed
           \/ Sent(w, v, "describe") /\ DescribeSent(v, w.selected)
    BY <1>4, <1>6, <1>13, <2>1, RefreshDetailEffect DEF Typed
  <2>4. /\ SameSlot(w, v, "profiles") /\ SameSlot(w, v, "list")
        /\ SameSlot(w, v, "action")
    BY <2>3 DEF SameOthers, Kinds, Reads
  <2>5. SameRest(u, v) /\ v.selected = u.selected /\ v.details = u.details
    BY <1>4, <2>3 DEF SameView, SameRest
  <2>6. Busy(v, "describe") => v.detailRequest.space = Asked(v, "describe").space
    BY <1>6, <2>3 DEF DescribeSent, NewCall
  <2>7. Chosen(v)
    BY <1>9, <2>5, <2>6 DEF Chosen, SameRest
  <2>8. DetailTrue(v, d, x)
    BY <1>4, <2>3, <2>5 DEF DetailTrue, Fresh, Sent, Told, SameRest
  <2>9. v.pending = u.pending
    BY <1>4, <1>6, <2>1, RefreshDetailEffect DEF Typed
  <2> QED BY <1>10, <2>2, <2>4, <2>5, <2>7, <2>8, <2>9 DEF v, t
<1>14. u.connected \in BOOLEAN
  BY DEF Good, Typed, ViewOK
<1> QED BY <1>11, <1>12, <1>13

\* What asking again leaves alone.
SameLook(u, v) ==
  /\ v.connected = u.connected /\ v.closed = u.closed /\ v.page = u.page
  /\ v.selected = u.selected /\ v.details = u.details
  /\ v.pendingSelect = u.pendingSelect /\ v.spaces = u.spaces
  /\ v.search = u.search /\ v.runningOnly = u.runningOnly
  /\ v.profile = u.profile /\ v.form = u.form /\ v.dialogs = u.dialogs

\* The answer of the kind k that comes next has been asked for by now, or will be
\* asked for again.
Due(u, k, again) == ~u.closed => Busy(u, k) /\ (Told(u, k) => again)

LEMMA ListAfterActionEffect ==
  ASSUME NEW u, Typed(u), NEW v, v = ListAfterAction(u)
  PROVE  /\ Typed(v) /\ SameLook(u, v) /\ SameOthers(u, v, "list")
         /\ v.detailRequest = u.detailRequest /\ v.pending = u.pending
         /\ v.profilesAgain = u.profilesAgain /\ Due(v, "list", v.listAgain)
<1>1. u.latest["list"] # NoId <=> Busy(u, "list")
  BY SlotsDiffer DEF Typed, Owned, Kinds, Reads
<1>2. CASE Busy(u, "list")
  <2>1. v = [u EXCEPT !.listAgain = TRUE]
    BY <1>1, <1>2 DEF ListAfterAction
  <2>2. /\ IsUi(v) /\ v.calls = u.calls /\ v.latest = u.latest
        /\ v.pending = u.pending /\ v.detailRequest = u.detailRequest
        /\ v.listAgain \in BOOLEAN /\ v.listAgain
        /\ v.profilesAgain = u.profilesAgain /\ SameLook(u, v)
    BY <2>1 DEF Typed, IsUi, SameLook
  <2>3. ViewOK(v)
    BY <2>2 DEF Typed, ViewOK, SameLook
  <2>4. Typed(v) /\ \A k : SameSlot(u, v, k)
    BY <2>2, <2>3, KeepRequests
  <2> QED BY <1>2, <2>2, <2>4 DEF SameOthers, SameSlot, Due
<1>3. CASE ~Busy(u, "list")
  <2>1. v = Refresh(u, "list")
    BY <1>1, <1>3 DEF ListAfterAction
  <2>2. Typed(v)
    BY <2>1, RefreshTyped
  <2>3. /\ SameView(u, v) /\ SameOthers(u, v, "list")
        /\ v.pending = u.pending /\ v.detailRequest = u.detailRequest
        /\ (v = u /\ u.closed) \/ Sent(u, v, "list")
    BY <1>3, <2>1, RefreshEffect DEF Typed, Reads
  <2>4. Due(v, "list", v.listAgain)
    BY <2>3 DEF Due, Sent, Told
  <2> QED BY <2>2, <2>3, <2>4 DEF SameView, SameRest, SameLook
<1> QED BY <1>2, <1>3

LEMMA ProfilesAfterActionEffect ==
  ASSUME NEW u, Typed(u), NEW v, v = ProfilesAfterAction(u)
  PROVE  /\ Typed(v) /\ SameLook(u, v) /\ SameOthers(u, v, "profiles")
         /\ v.detailRequest = u.detailRequest /\ v.pending = u.pending
         /\ v.listAgain = u.listAgain /\ Due(v, "profiles", v.profilesAgain)
<1>1. u.latest["profiles"] # NoId <=> Busy(u, "profiles")
  BY SlotsDiffer DEF Typed, Owned, Kinds, Reads
<1>2. CASE Busy(u, "profiles")
  <2>1. v = [u EXCEPT !.profilesAgain = TRUE]
    BY <1>1, <1>2 DEF ProfilesAfterAction
  <2>2. /\ IsUi(v) /\ v.calls = u.calls /\ v.latest = u.latest
        /\ v.pending = u.pending /\ v.detailRequest = u.detailRequest
        /\ v.profilesAgain \in BOOLEAN /\ v.profilesAgain
        /\ v.listAgain = u.listAgain /\ SameLook(u, v)
    BY <2>1 DEF Typed, IsUi, SameLook
  <2>3. ViewOK(v)
    BY <2>2 DEF Typed, ViewOK, SameLook
  <2>4. Typed(v) /\ \A k : SameSlot(u, v, k)
    BY <2>2, <2>3, KeepRequests
  <2> QED BY <1>2, <2>2, <2>4 DEF SameOthers, SameSlot, Due
<1>3. CASE ~Busy(u, "profiles")
  <2>1. v = Refresh(u, "profiles")
    BY <1>1, <1>3 DEF ProfilesAfterAction
  <2>2. Typed(v)
    BY <2>1, RefreshTyped
  <2>3. /\ SameView(u, v) /\ SameOthers(u, v, "profiles")
        /\ v.pending = u.pending /\ v.detailRequest = u.detailRequest
        /\ (v = u /\ u.closed) \/ Sent(u, v, "profiles")
    BY <1>3, <2>1, RefreshEffect DEF Typed, Reads
  <2>4. Due(v, "profiles", v.profilesAgain)
    BY <2>3 DEF Due, Sent, Told
  <2> QED BY <2>2, <2>3, <2>4 DEF SameView, SameRest, SameLook
<1> QED BY <1>2, <1>3

\* Details that are on screen are on their way again, and what was on its way has
\* the epoch of before.
DetailDue(u) ==
  /\ ~u.closed /\ u.details # NoDetails => Busy(u, "describe")
  /\ Told(u, "describe") => ~u.detailRequest.current

LEMMA DetailAfterActionEffect ==
  ASSUME NEW u, Typed(u), Chosen(u), ~u.detailRequest.current,
         NEW v, v = DetailAfterAction(u)
  PROVE  /\ Typed(v) /\ SameView(u, v) /\ SameOthers(u, v, "describe")
         /\ v.pending = u.pending /\ Chosen(v) /\ DetailDue(v)
<1>1. CASE u.selected = None
  <2>1. v = u
    BY <1>1 DEF DetailAfterAction
  <2> QED
    BY <1>1, <2>1 DEF Chosen, DetailDue, SameView, SameRest, SameOthers, SameSlot
<1>2. CASE u.selected # None
  <2>1. v = RefreshDetail(u, u.selected) /\ u.selected \in Ids
    BY <1>2 DEF DetailAfterAction, Typed, ViewOK
  <2>2. Typed(v)
    BY <2>1, RefreshDetailTyped
  <2>3. /\ SameView(u, v) /\ SameOthers(u, v, "describe")
        /\ v.pending = u.pending
        /\ \/ v = u /\ (u.closed \/ ~u.connected \/ Busy(u, "describe"))
           \/ Sent(u, v, "describe") /\ DescribeSent(v, u.selected)
    BY <2>1, RefreshDetailEffect DEF Typed
  <2>4. u.connected
    BY <1>2 DEF Chosen
  <2>5. Busy(v, "describe") => v.detailRequest.space = Asked(v, "describe").space
    BY <2>3 DEF DescribeSent, NewCall, Chosen
  <2>6. Chosen(v)
    BY <2>3, <2>5 DEF Chosen, SameView, SameRest
  <2>7. DetailDue(v)
    BY <2>3, <2>4 DEF DetailDue, Sent, Told
  <2> QED BY <2>2, <2>3, <2>6, <2>7
<1> QED BY <1>1, <1>2

LEMMA DueIsGood ==
  ASSUME NEW u, NEW d, NEW x, Typed(u), Chosen(u), DetailDue(u),
         CreateDialog \notin u.dialogs => u.form = "none",
         Due(u, "list", u.listAgain), Due(u, "profiles", u.profilesAgain)
  PROVE  Good(u, d, x)
<1>1. ListTrue(u, d, x)
  BY DEF ListTrue, Due, Fresh
<1>2. ProfileTrue(u, d, x)
  BY DEF ProfileTrue, Due, Fresh
<1>3. DetailTrue(u, d, x)
  BY DEF DetailTrue, DetailDue, Fresh
<1> QED BY <1>1, <1>2, <1>3 DEF Good

\* What a successful action leaves alone, besides the new requests.
AllAsked(u, v) ==
  /\ v.pendingSelect = u.pendingSelect /\ v.spaces = u.spaces
  /\ v.connected = u.connected /\ v.closed = u.closed /\ v.dialogs = u.dialogs
  /\ v.pending = u.pending
  /\ SameSlot(u, v, "action") /\ Due(v, "list", v.listAgain)

LEMMA AfterActionGood ==
  ASSUME NEW u, NEW d, NEW x, Typed(u), Chosen(u), ~u.detailRequest.current,
         CreateDialog \notin u.dialogs => u.form = "none"
  PROVE  /\ Good(ProfilesAfterAction(DetailAfterAction(ListAfterAction(u))), d, x)
         /\ AllAsked(u, ProfilesAfterAction(DetailAfterAction(ListAfterAction(u))))
<1> DEFINE a == ListAfterAction(u)
           b == DetailAfterAction(a)
           c == ProfilesAfterAction(b)
<1>1. a = ListAfterAction(u)
  OBVIOUS
<1> HIDE DEF a
<1>2. b = DetailAfterAction(a)
  OBVIOUS
<1> HIDE DEF b
<1>3. c = ProfilesAfterAction(b)
  OBVIOUS
<1> HIDE DEF c
<1>4. /\ Typed(a) /\ SameLook(u, a) /\ SameOthers(u, a, "list")
      /\ a.detailRequest = u.detailRequest /\ a.pending = u.pending
      /\ a.profilesAgain = u.profilesAgain /\ Due(a, "list", a.listAgain)
  BY <1>1, ListAfterActionEffect
<1>5. SameSlot(u, a, "describe")
  BY <1>4 DEF SameOthers, Kinds, Reads
<1>6. Chosen(a) /\ ~a.detailRequest.current
  BY <1>4, <1>5 DEF Chosen, SameLook, SameSlot
<1>7. /\ Typed(b) /\ SameView(a, b) /\ SameOthers(a, b, "describe")
      /\ Chosen(b) /\ DetailDue(b) /\ b.pending = a.pending
  BY <1>2, <1>4, <1>6, DetailAfterActionEffect
<1>8. /\ Typed(c) /\ SameLook(b, c) /\ SameOthers(b, c, "profiles")
      /\ c.detailRequest = b.detailRequest /\ c.pending = b.pending
      /\ c.listAgain = b.listAgain /\ Due(c, "profiles", c.profilesAgain)
  BY <1>3, <1>7, ProfilesAfterActionEffect
<1>9. SameSlot(b, c, "describe") /\ SameSlot(b, c, "list") /\ SameSlot(a, b, "list")
  BY <1>7, <1>8 DEF SameOthers, Kinds, Reads
<1>10. Chosen(c) /\ DetailDue(c)
  BY <1>7, <1>8, <1>9 DEF Chosen, DetailDue, SameLook, SameSlot, Told, Result
<1>11. Due(c, "list", c.listAgain)
  BY <1>4, <1>7, <1>8, <1>9 DEF Due, SameLook, SameView, SameRest, SameSlot, Told, Result
<1>12. CreateDialog \notin c.dialogs => c.form = "none"
  BY <1>4, <1>7, <1>8 DEF SameLook, SameView, SameRest
<1>a. SameSlot(u, a, "action") /\ SameSlot(a, b, "action") /\ SameSlot(b, c, "action")
  BY <1>4, <1>7, <1>8 DEF SameOthers, Kinds, Reads
<1>b. SameSlot(u, c, "action")
  BY <1>a DEF SameSlot
<1>13. AllAsked(u, c)
  BY <1>4, <1>7, <1>8, <1>11, <1>b DEF SameLook, SameView, SameRest, AllAsked
<1> QED BY <1>8, <1>10, <1>11, <1>12, <1>13, DueIsGood DEF a, b, c

\* What the dialogs that an answer opens ask.
PromptFor(q, a) ==
  q.type = "prompt" /\ q.space = a.space /\ q.encrypted = a.encrypted

PassphraseFor(q, a) ==
  q.type = "passphrase" /\ q.op = a.op /\ q.space = a.space

\* The action a has ended.
ActionTaken(u, v, answer) ==
  /\ v.spaces = u.spaces /\ v.connected = u.connected /\ v.closed = u.closed
  /\ v.pending = NoAction /\ ~Busy(v, "action")
  /\ u.dialogs \subseteq v.dialogs
  /\ \A q \in v.dialogs \ u.dialogs :
       \/ /\ answer.result = "ok" /\ u.pending.kind = "create"
          /\ PromptFor(q, u.pending)
       \/ /\ answer.result # "ok" /\ u.pending.kind = "passphrase"
          /\ PassphraseFor(q, u.pending)
  /\ \A p, q \in v.dialogs \ u.dialogs : p = q
  /\ IF answer.result = "ok" THEN Due(v, "list", v.listAgain)
     ELSE SameSlot(u, v, "list") /\ v.listAgain = u.listAgain

LEMMA PromptEffect ==
  ASSUME NEW u, Typed(u), NEW a, PendingOK(a), NEW v,
         v = PromptStartAfterCreate(u, a)
  PROVE  /\ Typed(v) /\ \A k : SameSlot(u, v, k)
         /\ v.calls = u.calls /\ v.latest = u.latest /\ v.pending = u.pending
         /\ v.detailRequest = u.detailRequest /\ v.form = u.form
         /\ v.connected = u.connected /\ v.spaces = u.spaces
         /\ v.selected = u.selected /\ v.details = u.details
         /\ v.closed = u.closed /\ u.dialogs \subseteq v.dialogs
         /\ v.pendingSelect \in {u.pendingSelect} \cup Ids
         /\ \A q \in v.dialogs \ u.dialogs :
              a.kind = "create" /\ PromptFor(q, a)
         /\ \A p, q \in v.dialogs \ u.dialogs : p = q
<1>1. CASE a.kind # "create"
  <2>1. v = u
    BY <1>1 DEF PromptStartAfterCreate
  <2> QED BY <2>1 DEF SameSlot
<1>2. CASE a.kind = "create"
  <2> DEFINE p == Dialog("prompt", "start", a.space, a.encrypted)
             s == a.space
  <2>1. v = [u EXCEPT !.pendingSelect = s, !.dialogs = @ \cup {p}]
    BY <1>2 DEF PromptStartAfterCreate
  <2>2. s \in Ids
    BY <1>2 DEF PendingOK
  <2>3. p.type = "prompt" /\ p.space = s /\ PromptFor(p, a)
    BY DEF Dialog, PromptFor
  <2> HIDE DEF p, s
  <2>4. DialogOK(p)
    BY <2>2, <2>3 DEF DialogOK
  <2>5. /\ IsUi(v) /\ v.calls = u.calls /\ v.latest = u.latest
        /\ v.pending = u.pending /\ v.detailRequest = u.detailRequest
        /\ v.pendingSelect = s /\ v.dialogs = u.dialogs \cup {p}
        /\ v.form = u.form /\ v.connected = u.connected /\ v.spaces = u.spaces
        /\ v.selected = u.selected /\ v.details = u.details
        /\ v.closed = u.closed /\ v.page = u.page /\ v.search = u.search
        /\ v.runningOnly = u.runningOnly /\ v.profile = u.profile
        /\ v.listAgain = u.listAgain /\ v.profilesAgain = u.profilesAgain
    BY <2>1 DEF Typed, IsUi
  <2>6. ViewOK(v)
    BY <2>2, <2>4, <2>5 DEF Typed, ViewOK
  <2>7. Typed(v) /\ \A k : SameSlot(u, v, k)
    BY <2>5, <2>6, KeepRequests
  <2> QED BY <1>2, <2>2, <2>3, <2>5, <2>7
<1> QED BY <1>1, <1>2

LEMMA DoneActionGood ==
  ASSUME NEW u, NEW d, NEW x, Good(u, d, x), Busy(u, "action"), NEW answer,
         answer = Asked(u, "action").answer
  PROVE  /\ Good(DoneAction(Without(u, "action"), answer), d, x)
         /\ Awaited(u, DoneAction(Without(u, "action"), answer))
         /\ ActionTaken(u, DoneAction(Without(u, "action"), answer), answer)
<1> DEFINE t == Without(u, "action")
           a == t.pending
           w == [t EXCEPT !.pending = NoAction]
           v == DoneAction(t, answer)
<1>1. /\ IsUi(t) /\ t.latest = u.latest /\ t.listAgain = u.listAgain
      /\ t.calls = Restrict(u.calls, DOMAIN u.calls \ {Slot("action")})
      /\ t.pending = u.pending /\ t.detailRequest = u.detailRequest
      /\ t.profilesAgain = u.profilesAgain /\ t.closed = u.closed
      /\ t.connected = u.connected /\ t.page = u.page /\ t.selected = u.selected
      /\ t.pendingSelect = u.pendingSelect /\ t.spaces = u.spaces
      /\ t.search = u.search /\ t.runningOnly = u.runningOnly
      /\ t.details = u.details /\ t.profile = u.profile /\ t.form = u.form
      /\ t.dialogs = u.dialogs
  BY DEF Without, IsUi, Good, Typed
<1>2. v = CASE answer.result = "ok" ->
                 ProfilesAfterAction(DetailAfterAction(ListAfterAction(
                   NextEpoch(PromptStartAfterCreate(w, a)))))
            [] answer.result = "wrong-passphrase" /\ a.kind = "passphrase" ->
                 [w EXCEPT !.dialogs = @ \cup {Dialog("passphrase", a.op,
                                                      a.space, TRUE)}]
            [] OTHER -> w
  BY DEF DoneAction
<1>3. w = [t EXCEPT !.pending = NoAction]
  OBVIOUS
<1>p. PendingOK(a)
  BY <1>1 DEF Good, Typed
<1>a. a = u.pending
  BY <1>1
<1> HIDE DEF t, a, w, v
<1>4. /\ IsUi(w) /\ w.latest = u.latest /\ w.calls = t.calls
      /\ w.pending = NoAction /\ w.detailRequest = u.detailRequest
      /\ w.profilesAgain = u.profilesAgain
      /\ w.listAgain = u.listAgain /\ w.closed = u.closed
      /\ w.connected = u.connected /\ w.page = u.page /\ w.selected = u.selected
      /\ w.pendingSelect = u.pendingSelect /\ w.spaces = u.spaces
      /\ w.search = u.search /\ w.runningOnly = u.runningOnly
      /\ w.details = u.details /\ w.profile = u.profile /\ w.form = u.form
      /\ w.dialogs = u.dialogs
  BY <1>1, <1>3 DEF IsUi
<1>5. ViewOK(w)
  BY <1>4 DEF ViewOK, Good, Typed
<1>6. Typed(w) /\ SameOthers(u, w, "action") /\ ~Busy(w, "action")
  BY <1>1, <1>4, <1>5, TakenAction DEF Good
<1>7. /\ SameSlot(u, w, "profiles") /\ SameSlot(u, w, "list")
      /\ SameSlot(u, w, "describe")
  BY <1>6 DEF SameOthers, Kinds, Reads
<1>8. Chosen(w) /\ (CreateDialog \notin w.dialogs => w.form = "none")
  BY <1>4, <1>7 DEF Good, Chosen, ProfileTrue, SameSlot
<1>9. CASE answer.result = "ok"
  <2> DEFINE p == PromptStartAfterCreate(w, a)
             e == NextEpoch(p)
  <2>1. v = ProfilesAfterAction(DetailAfterAction(ListAfterAction(e)))
    BY <1>2, <1>9
  <2>2. p = PromptStartAfterCreate(w, a)
    OBVIOUS
  <2> HIDE DEF p
  <2>3. e = NextEpoch(p)
    OBVIOUS
  <2> HIDE DEF e
  <2>4. /\ Typed(p) /\ \A k : SameSlot(w, p, k)
        /\ p.detailRequest = w.detailRequest /\ p.form = w.form
        /\ p.connected = w.connected /\ p.spaces = w.spaces
        /\ p.selected = w.selected /\ p.details = w.details
        /\ w.dialogs \subseteq p.dialogs
        /\ p.pendingSelect \in {w.pendingSelect} \cup Ids
        /\ p.closed = w.closed /\ p.pending = w.pending
        /\ \A q \in p.dialogs \ w.dialogs : a.kind = "create" /\ PromptFor(q, a)
        /\ \A q, r \in p.dialogs \ w.dialogs : q = r
    BY <1>6, <1>p, <2>2, PromptEffect
  <2>5. Chosen(p) /\ (CreateDialog \notin p.dialogs => p.form = "none")
    BY <1>8, <2>4 DEF Chosen, SameSlot
  <2>6. /\ Typed(e) /\ SameView(p, e) /\ \A k : SameSlot(p, e, k)
        /\ e.detailRequest.space = p.detailRequest.space
        /\ ~e.detailRequest.current /\ e.pending = p.pending
    BY <2>3, <2>4, EpochEffect
  <2>7. Chosen(e) /\ (CreateDialog \notin e.dialogs => e.form = "none")
    BY <2>5, <2>6 DEF Chosen, SameSlot, SameView, SameRest
  <2>8. Good(v, d, x) /\ AllAsked(e, v)
    BY <2>1, <2>6, <2>7, AfterActionGood
  <2>9. Awaited(u, v)
    BY <1>4, <2>4, <2>6, <2>8 DEF SameView, SameRest, AllAsked, Awaited
  <2>10. ~Busy(v, "action")
    BY <1>6, <2>4, <2>6, <2>8 DEF SameSlot, AllAsked
  <2>11. /\ v.dialogs = p.dialogs /\ v.pending = NoAction /\ v.closed = u.closed
         /\ v.spaces = u.spaces /\ v.connected = u.connected
    BY <1>4, <2>4, <2>6, <2>8 DEF SameView, SameRest, AllAsked
  <2>12. Due(v, "list", v.listAgain) /\ w.dialogs = u.dialogs
    BY <1>4, <2>8 DEF AllAsked
  <2>13. ActionTaken(u, v, answer)
    BY <1>9, <1>a, <2>4, <2>10, <2>11, <2>12 DEF ActionTaken
  <2> QED BY <2>8, <2>9, <2>13 DEF v, t
<1>10. ASSUME answer.result # "ok" PROVE Good(w, d, x)
  <2>1. ~Reported(u) /\ ~Reported(w)
    BY <1>6, <1>10 DEF Reported, Told, Result
  <2>2. ASSUME NEW k PROVE Fresh(w, x, k) => Fresh(u, x, k)
    BY <1>4, <2>1 DEF Fresh
  <2>3. ListTrue(w, d, x)
    BY <1>4, <1>7, <2>2 DEF Good, ListTrue, SameSlot, Told, Result, Body
  <2>4. DetailTrue(w, d, x)
    BY <1>4, <1>7, <2>2 DEF Good, DetailTrue, SameSlot, Told, Result, Body
  <2>5. ProfileTrue(w, d, x)
    BY <1>4, <1>7, <2>2 DEF Good, ProfileTrue, SameSlot, Told, Result, Body
  <2> QED BY <1>6, <1>8, <2>3, <2>4, <2>5 DEF Good
<1>11. CASE answer.result = "wrong-passphrase" /\ a.kind = "passphrase"
  <2>1. PICK yes \in {TRUE} : TRUE
    OBVIOUS
  <2> DEFINE p == Dialog("passphrase", a.op, a.space, yes)
  <2>2. v = [w EXCEPT !.dialogs = @ \cup {p}]
    BY <1>2, <1>11, <2>1
  <2>3. p.type = "passphrase" /\ p.op = a.op /\ p.space = a.space
    BY DEF Dialog
  <2>a. PassphraseFor(p, a)
    BY <2>3 DEF PassphraseFor
  <2> HIDE DEF p
  <2>4. DialogOK(p)
    BY <1>11, <1>p, <2>3 DEF DialogOK, PendingOK
  <2>5. Awaited(u, v)
    BY <1>4, <2>2 DEF IsUi, Awaited
  <2>6. /\ v.spaces = u.spaces /\ v.connected = u.connected
        /\ v.closed = u.closed /\ v.pending = NoAction /\ v.calls = w.calls
        /\ v.listAgain = u.listAgain /\ v.dialogs = u.dialogs \cup {p}
    BY <1>4, <2>2 DEF IsUi
  <2>7. ~Busy(v, "action") /\ SameSlot(u, v, "list")
    BY <1>6, <1>7, <2>6 DEF Busy, SameSlot, Asked
  <2>8. ActionTaken(u, v, answer)
    BY <1>11, <1>a, <2>6, <2>7, <2>a DEF ActionTaken
  <2> QED BY <1>10, <1>11, <2>2, <2>4, <2>5, <2>8, OpenGood DEF v, t
<1>12. CASE answer.result # "ok" /\ ~(answer.result = "wrong-passphrase" /\ a.kind = "passphrase")
  <2>1. v = w
    BY <1>2, <1>12
  <2>2. ActionTaken(u, v, answer)
    BY <1>4, <1>6, <1>7, <1>12, <2>1 DEF ActionTaken
  <2> QED BY <1>4, <1>10, <1>12, <2>1, <2>2 DEF v, t, Awaited
<1> QED BY <1>9, <1>11, <1>12

\* What the answer has changed.
Taken(u, v) ==
  \/ Quiet(u, v)
  \/ Busy(u, "list") /\ ListTaken(u, v, Asked(u, "list").answer)
  \/ Busy(u, "action") /\ ActionTaken(u, v, Asked(u, "action").answer)

\* handle_done: whatever answer comes.
LEMMA HandleDoneGood ==
  ASSUME NEW u, NEW d, NEW x, Good(u, d, x), NEW id \in DOMAIN u.calls
  PROVE  /\ Good(HandleDone(u, id), d, x) /\ Awaited(u, HandleDone(u, id))
         /\ Taken(u, HandleDone(u, id))
<1>1. PICK k \in Kinds : id = Slot(k)
  BY DEF Good, Typed, Owned
<1>2. Busy(u, k) /\ u.calls[id].answer = Asked(u, k).answer
  BY <1>1 DEF Busy, Asked
<1> DEFINE answer == Asked(u, k).answer
           t == Without(u, k)
<1>3. /\ \A l \in Reads : u.latest[l] = Slot(k) <=> l = k
      /\ u.pending.id = Slot(k) <=> k = "action"
  <2>1. "action" \in Kinds /\ NoAction.id = NoId
    BY DEF Kinds, NoAction
  <2> QED BY <1>2, <2>1, SlotsDiffer DEF Good, Typed, Owned, Kinds
<1>4. HandleDone(u, id) =
        CASE id = u.latest["list"] -> DoneList(t, answer)
          [] id = u.latest["describe"] -> DoneDetail(t, answer)
          [] id = u.latest["profiles"] -> DoneProfiles(t, answer)
          [] id = u.pending.id -> DoneAction(t, answer)
          [] OTHER -> t
  BY <1>1, <1>2 DEF HandleDone, Without
<1>a. answer = Asked(u, k).answer /\ t = Without(u, k)
  OBVIOUS
<1> HIDE DEF answer, t
<1>5. CASE k = "list"
  <2>1. HandleDone(u, id) = DoneList(t, answer)
    BY <1>1, <1>3, <1>4, <1>5 DEF Reads
  <2> QED BY <1>2, <1>5, <1>a, <2>1, DoneListGood DEF Taken
<1>6. CASE k = "describe"
  <2>1. HandleDone(u, id) = DoneDetail(t, answer)
    BY <1>1, <1>3, <1>4, <1>6 DEF Reads
  <2> QED BY <1>2, <1>6, <1>a, <2>1, DoneDetailGood DEF Taken
<1>7. CASE k = "profiles"
  <2>1. HandleDone(u, id) = DoneProfiles(t, answer)
    BY <1>1, <1>3, <1>4, <1>7 DEF Reads
  <2> QED BY <1>2, <1>7, <1>a, <2>1, DoneProfilesGood DEF Taken
<1>8. CASE k = "action"
  <2>1. HandleDone(u, id) = DoneAction(t, answer)
    BY <1>1, <1>3, <1>4, <1>8 DEF Reads
  <2> QED BY <1>2, <1>8, <1>a, <2>1, DoneActionGood DEF Taken
<1> QED BY <1>5, <1>6, <1>7, <1>8 DEF Kinds, Reads

-----------------------------------------------------------------------------
(* The steps of the window.                                                *)

\* build_window.
LEMMA EmptyGood ==
  ASSUME NEW d, NEW x, NEW u, NEW c \in BOOLEAN,
         u = [EmptyUi EXCEPT !.closed = c]
  PROVE  Good(u, d, x) /\ u.calls = [i \in {} |-> NoAction]
<1>1. /\ IsUi(u) /\ u.closed = c /\ u.page = "spaces" /\ u.selected = None
      /\ u.pendingSelect = None /\ u.spaces = NoRows /\ u.search = Ids
      /\ u.details = NoDetails /\ u.detailRequest = NoDetailRequest
      /\ u.profile = "none" /\ u.form = "none"
      /\ u.latest = [k \in Reads |-> NoId] /\ u.pending = NoAction
      /\ u.dialogs = {} /\ u.calls = [i \in {} |-> NoAction]
  BY DEF EmptyUi, IsUi
<1>2. /\ u.connected = FALSE /\ u.runningOnly = FALSE
      /\ u.listAgain = FALSE /\ u.profilesAgain = FALSE
  BY DEF EmptyUi
<1>3. IsFcn(u.calls) /\ DOMAIN u.calls = {}
  BY <1>1 DEF IsFcn
<1>4. \A k : ~Busy(u, k)
  BY <1>3 DEF Busy
<1>5. Owned(u)
  BY <1>1, <1>3, <1>4 DEF Owned
<1>6. NoDetailRequest \in DetailRequests /\ PendingOK(NoAction)
  BY DEF NoDetailRequest, DetailRequests, PendingOK, NoAction
<1>7. ViewOK(u)
  BY <1>1, <1>2, <1>6, NoRowsIsTyped DEF ViewOK
<1>8. Typed(u)
  BY <1>1, <1>4, <1>5, <1>6, <1>7 DEF Typed, CallsOK
<1>9. Chosen(u)
  BY <1>1, <1>4, NoRowsIsTyped DEF Chosen
<1>10. ListTrue(u, d, x) /\ DetailTrue(u, d, x) /\ ProfileTrue(u, d, x)
  BY <1>1, <1>2, <1>4 DEF ListTrue, DetailTrue, ProfileTrue, Told
<1> QED BY <1>1, <1>8, <1>9, <1>10 DEF Good

\* What the operator changes without a request.
LEMMA PageGood ==
  ASSUME NEW u, NEW d, NEW x, Good(u, d, x), NEW page \in {"spaces", "images"}
  PROVE  Good([u EXCEPT !.page = page], d, x)
<1> DEFINE v == [u EXCEPT !.page = page]
<1>1. v = [u EXCEPT !.page = page]
  OBVIOUS
<1> HIDE DEF v
<1>2. /\ IsUi(v) /\ v.calls = u.calls /\ v.latest = u.latest
      /\ v.pending = u.pending /\ v.detailRequest = u.detailRequest
      /\ v.dialogs = u.dialogs /\ v.form = u.form
      /\ v.connected = u.connected /\ v.closed = u.closed
      /\ v.selected = u.selected /\ v.spaces = u.spaces
      /\ v.details = u.details /\ v.profile = u.profile /\ v.page = page
      /\ v.listAgain = u.listAgain /\ v.profilesAgain = u.profilesAgain
      /\ v.pendingSelect = u.pendingSelect /\ v.search = u.search
      /\ v.runningOnly = u.runningOnly
  BY <1>1 DEF IsUi, Good, Typed
<1>3. ViewOK(v)
  BY <1>2 DEF ViewOK, Good, Typed
<1>4. CreateDialog \notin v.dialogs => v.form = "none"
  BY <1>2 DEF Good, ProfileTrue
<1> QED BY <1>2, <1>3, <1>4, ChangeGood DEF v

LEMMA SearchGood ==
  ASSUME NEW u, NEW d, NEW x, Good(u, d, x), NEW search \in SUBSET Ids,
         NEW r \in BOOLEAN
  PROVE  Good([u EXCEPT !.search = search, !.runningOnly = r], d, x)
<1> DEFINE v == [u EXCEPT !.search = search, !.runningOnly = r]
<1>1. v = [u EXCEPT !.search = search, !.runningOnly = r]
  OBVIOUS
<1> HIDE DEF v
<1>2. /\ IsUi(v) /\ v.calls = u.calls /\ v.latest = u.latest
      /\ v.pending = u.pending /\ v.detailRequest = u.detailRequest
      /\ v.dialogs = u.dialogs /\ v.form = u.form
      /\ v.connected = u.connected /\ v.closed = u.closed
      /\ v.selected = u.selected /\ v.spaces = u.spaces
      /\ v.details = u.details /\ v.profile = u.profile /\ v.page = u.page
      /\ v.listAgain = u.listAgain /\ v.profilesAgain = u.profilesAgain
      /\ v.pendingSelect = u.pendingSelect /\ v.search = search
      /\ v.runningOnly = r
  BY <1>1 DEF IsUi, Good, Typed
<1>3. ViewOK(v)
  BY <1>2 DEF ViewOK, Good, Typed
<1>4. CreateDialog \notin v.dialogs => v.form = "none"
  BY <1>2 DEF Good, ProfileTrue
<1> QED BY <1>2, <1>3, <1>4, ChangeGood DEF v

LEMMA SelectedIsId ==
  ASSUME NEW u, Typed(u), u.selected # None
  PROVE  u.selected \in Ids
  BY DEF Typed, ViewOK

LEMMA PollGood ==
  ASSUME Good(ui, daemon, unseen), PollRefresh
  PROVE  Good(ui', daemon, unseen)
<1> DEFINE v == Refresh(ui, "list")
           w == CASE v.page = "images" -> Refresh(v, "profiles")
                  [] v.page = "spaces" /\ v.selected # None ->
                       RefreshDetail(v, v.selected)
                  [] OTHER -> v
<1>1. ui' = IF CreateDialog \in w.dialogs THEN Refresh(w, "profiles") ELSE w
  BY DEF PollRefresh
<1>2. Good(v, daemon, unseen)
  BY RefreshGood
<1> HIDE DEF v
<1>3. Good(w, daemon, unseen)
  <2>1. CASE v.page = "images"
    BY <1>2, <2>1, RefreshGood
  <2>2. CASE v.page = "spaces" /\ v.selected # None
    <3>1. v.selected \in Ids
      BY <1>2, <2>2, SelectedIsId DEF Good
    <3>2. Good(RefreshDetail(v, v.selected), daemon, unseen)
      BY <1>2, <3>1, RefreshDetailGood
    <3> QED BY <2>2, <3>2
  <2>3. CASE v.page # "images" /\ ~(v.page = "spaces" /\ v.selected # None)
    BY <1>2, <2>3
  <2> QED BY <2>1, <2>2, <2>3
<1> HIDE DEF w
<1> QED BY <1>1, <1>3, RefreshGood

LEMMA OperatorGood ==
  ASSUME Good(ui, daemon, unseen), Operator, ~CloseWindow
  PROVE  Good(ui', daemon, unseen)
<1>d. ASSUME NEW dialog \in ui.dialogs PROVE DialogOK(dialog)
  BY DEF Good, Typed, ViewOK
<1>1. ASSUME NEW s \in Ids \cup {None}, ClickRow(s)
      PROVE  Good(ui', daemon, unseen)
  <2>1. s \in DOMAIN ui.spaces \cup {None} /\ ui' = SelectSpace(ui, s)
    BY <1>1 DEF ClickRow, Visible
  <2> QED BY <2>1, SelectGood
<1>2. ASSUME NEW page \in Pages, Navigate(page)
      PROVE  Good(ui', daemon, unseen)
  <2> DEFINE v == [ui EXCEPT !.page = page]
  <2>1. ui' = IF page = "images" THEN Refresh(v, "profiles") ELSE v
    BY <1>2 DEF Navigate
  <2>2. Good(v, daemon, unseen)
    BY PageGood, ManagerAssumption
  <2> HIDE DEF v
  <2> QED BY <2>1, <2>2, RefreshGood
<1>3. ASSUME NEW search \in Searches, NEW r \in BOOLEAN, Filter(search, r)
      PROVE  Good(ui', daemon, unseen)
  <2> DEFINE v == [ui EXCEPT !.search = search, !.runningOnly = r]
  <2>1. ui' = FilterSpaces(v)
    BY <1>3 DEF Filter
  <2>2. Good(v, daemon, unseen)
    BY SearchGood, ManagerAssumption
  <2> HIDE DEF v
  <2> QED BY <2>1, <2>2, FilterGood
<1>4. ASSUME NEW op \in Operations \cap Immediate, ClickOperation(op)
      PROVE  Good(ui', daemon, unseen)
  <2>1. ui.selected \in Ids /\ op \in Actions \ {"create"}
    BY <1>4, DomainOfRows
       DEF ClickOperation, Sensitive, ActionEnabled, Good, Typed, ViewOK,
           Immediate, Actions
  <2>2. ui' = AskOrSend(ui, op, ui.selected, NeedsPassphrase(op, ui, ui.selected))
    BY <1>4 DEF ClickOperation
  <2> QED BY <2>1, <2>2, AskOrSendGood
<1>5. ASSUME NEW op \in Operations \cap Confirmed, ClickConfirmed(op)
      PROVE  Good(ui', daemon, unseen)
  <2>1. ui.selected \in Ids /\ op \in Actions \ {"create"}
    BY <1>5, DomainOfRows
       DEF ClickConfirmed, Sensitive, ActionEnabled, Good, Typed, ViewOK,
           Confirmed, Actions
  <2> DEFINE p == Dialog("confirm", op, ui.selected, FALSE)
  <2>2. ui' = [ui EXCEPT !.dialogs = @ \cup {p}]
    BY <1>5 DEF ClickConfirmed
  <2>3. p.type = "confirm" /\ p.op = op /\ p.space = ui.selected
    BY DEF Dialog
  <2> HIDE DEF p
  <2>4. DialogOK(p)
    BY <2>1, <2>3 DEF DialogOK
  <2> QED BY <2>2, <2>4, OpenGood
<1>6. ASSUME NEW dialog \in ui.dialogs, Confirm(dialog)
      PROVE  Good(ui', daemon, unseen)
  <2>1. dialog.space \in Ids /\ dialog.op \in Actions \ {"create"}
    BY <1>6, <1>d DEF Confirm, DialogOK
  <2>2. ui' = AskOrSend(Close(ui, dialog), dialog.op, dialog.space,
                        NeedsPassphrase(dialog.op, ui, dialog.space))
    BY <1>6 DEF Confirm
  <2>3. Good(Close(ui, dialog), daemon, unseen)
    BY CloseGood
  <2> QED BY <2>1, <2>2, <2>3, AskOrSendGood
<1>7. ASSUME NEW dialog \in ui.dialogs, SubmitPassphrase(dialog)
      PROVE  Good(ui', daemon, unseen)
  <2>1. dialog.space \in Ids /\ dialog.op \in Actions \ {"create"}
    BY <1>7, <1>d DEF SubmitPassphrase, DialogOK
  <2> DEFINE v == SendAction(ui, "passphrase", dialog.op, dialog.space, TRUE, TRUE)
  <2>2. ui' = Close(v, dialog)
    BY <1>7 DEF SubmitPassphrase
  <2>3. Good(v, daemon, unseen)
    BY <2>1, SendActionGood DEF Creates
  <2> HIDE DEF v
  <2> QED BY <2>2, <2>3, CloseGood
<1>8. ASSUME NEW dialog \in ui.dialogs, StartNow(dialog)
      PROVE  Good(ui', daemon, unseen)
  <2>1. dialog.space \in Ids /\ "start" \in Actions \ {"create"}
    BY <1>8, <1>d DEF StartNow, DialogOK, Actions, Immediate
  <2> DEFINE v == AskOrSend(ui, "start", dialog.space, dialog.encrypted)
  <2>2. ui' = Close(v, dialog)
    BY <1>8 DEF StartNow
  <2>3. Good(v, daemon, unseen)
    BY <2>1, AskOrSendGood
  <2> HIDE DEF v
  <2> QED BY <2>2, <2>3, CloseGood
<1>9. ASSUME NEW dialog \in ui.dialogs, Cancel(dialog)
      PROVE  Good(ui', daemon, unseen)
  BY <1>9, CloseGood DEF Cancel
<1>10. CASE OpenCreateDialog
  <2> DEFINE v == [ui EXCEPT !.dialogs = @ \cup {CreateDialog}, !.form = "none"]
  <2>1. ui' = Refresh(v, "profiles")
    BY <1>10 DEF OpenCreateDialog
  <2>2. Good(v, daemon, unseen)
    BY OpenFormGood
  <2> HIDE DEF v
  <2> QED BY <2>1, <2>2, RefreshGood
<1>11. ASSUME NEW s \in Ids, NEW e \in Encryption, SubmitCreate(s, e)
       PROVE  Good(ui', daemon, unseen)
  <2> DEFINE v == SendAction(ui, "create", "create", s, e, e)
  <2>1. ui' = Close(v, CreateDialog)
    BY <1>11 DEF SubmitCreate
  <2>2. Good(v, daemon, unseen)
    BY SendActionGood DEF Creates, Actions
  <2> HIDE DEF v
  <2> QED BY <2>1, <2>2, CloseGood
<1>12. CASE BuildInForm \/ BuildOnPage
  <2>1. ui' = SendAction(ui, "other", "build", None, FALSE, FALSE)
    BY <1>12 DEF BuildInForm, BuildOnPage
  <2> QED BY <2>1, SendActionGood DEF Creates, Actions
<1> QED
  BY <1>1, <1>2, <1>3, <1>4, <1>5, <1>6, <1>7, <1>8, <1>9, <1>10, <1>11, <1>12
  DEF Operator

-----------------------------------------------------------------------------
(* The steps of the daemon and of the calls.                               *)

AnswerOK(k, c, a) ==
  a.result = "ok" =>
    /\ k = "list" => a.body \in Rows
    /\ k = "describe" => a.body \in [space : {c.space}, row : Row]
    /\ k = "profiles" => a.body \in {"unbuilt", "ready"}

LEMMA AnsweredEffect ==
  ASSUME NEW u, Typed(u), NEW k \in Kinds, Busy(u, k), NEW a,
         AnswerOK(k, Asked(u, k), a),
         NEW v, v = [u EXCEPT !.calls[Slot(k)].answer = a]
  PROVE  /\ Typed(v) /\ SameView(u, v) /\ SameOthers(u, v, k)
         /\ v.detailRequest = u.detailRequest /\ v.pending = u.pending
         /\ Busy(v, k) /\ Asked(v, k).answer = a
         /\ Asked(v, k).op = Asked(u, k).op
         /\ Asked(v, k).space = Asked(u, k).space
         /\ Asked(v, k).encrypted = Asked(u, k).encrypted
         /\ Asked(v, k).passphrase = Asked(u, k).passphrase
<1> DEFINE c == Asked(u, k)
           e == [c EXCEPT !.answer = a]
           f == [u.calls EXCEPT ![Slot(k)] = e]
<1>1. v = [u EXCEPT !.calls = f]
  BY DEF Typed, IsUi, Asked
<1>2. CallOK(k, c)
  BY DEF Typed, CallsOK
<1>3. /\ e.op = c.op /\ e.space = c.space /\ e.encrypted = c.encrypted
      /\ e.passphrase = c.passphrase /\ e.answer = a
      /\ e = [op |-> e.op, space |-> e.space, encrypted |-> e.encrypted,
              passphrase |-> e.passphrase, answer |-> e.answer]
  <2> HIDE DEF c
  <2> QED BY <1>2 DEF CallOK
<1> HIDE DEF c, e
<1>4. CallOK(k, e)
  BY <1>2, <1>3 DEF CallOK, AnswerOK, c
<1>5. /\ IsFcn(f) /\ DOMAIN f = DOMAIN u.calls /\ f[Slot(k)] = e
      /\ \A i \in DOMAIN u.calls \ {Slot(k)} : f[i] = u.calls[i]
  BY DEF IsFcn, Busy
<1> HIDE DEF f
<1>6. /\ IsUi(v) /\ SameView(u, v) /\ v.latest = u.latest
      /\ v.pending = u.pending /\ v.detailRequest = u.detailRequest
      /\ v.calls = f
  BY <1>1 DEF Typed, IsUi, SameView, SameRest
<1>7. \A l : Busy(v, l) <=> Busy(u, l)
  BY <1>5, <1>6 DEF Busy
<1>8. SameOthers(u, v, k)
  <2> SUFFICES ASSUME NEW l \in Kinds \ {k} PROVE SameSlot(u, v, l)
    BY DEF SameOthers
  <2>1. Slot(l) # Slot(k)
    BY SlotsDiffer
  <2> QED BY <1>5, <1>6, <1>7, <2>1 DEF SameSlot, Busy, Asked
<1>9. Busy(v, k) /\ Asked(v, k) = e
  BY <1>5, <1>6, <1>7 DEF Asked
<1>10. Owned(v)
  BY <1>5, <1>6, <1>7 DEF Typed, Owned
<1>11. CallsOK(v)
  BY <1>4, <1>8, <1>9 DEF Typed, CallsOK, SameOthers, SameSlot
<1>12. ViewOK(v)
  BY <1>6 DEF Typed, ViewOK, SameView, SameRest
<1> QED BY <1>3, <1>6, <1>8, <1>9, <1>10, <1>11, <1>12 DEF Typed, c

\* What a daemon says of k is right.
Says(k, a, d) ==
  a.result = "ok" =>
    /\ k = "list" => a.body = d.spaces
    /\ k = "describe" => Right(a.body, d)
    /\ k = "profiles" => a.body = d.profile

LEMMA ChosenAnswered ==
  ASSUME NEW u, Chosen(u), NEW v, SameView(u, v), NEW k, SameOthers(u, v, k),
         v.detailRequest = u.detailRequest, Busy(u, k), Busy(v, k),
         Asked(v, k).space = Asked(u, k).space
  PROVE  Chosen(v)
<1>1. "describe" \in Kinds
  BY DEF Kinds, Reads
<1>2. Busy(v, "describe") =>
        Busy(u, "describe") /\ Asked(v, "describe").space = Asked(u, "describe").space
  BY <1>1 DEF SameOthers, SameSlot
<1> QED BY <1>2 DEF Chosen, SameView, SameRest

\* An answer that tells no success of an action.
LEMMA AnsweredGood ==
  ASSUME NEW u, NEW d, NEW x, Good(u, d, x), NEW k \in Kinds, Busy(u, k),
         Result(u, k) = "none", NEW a, AnswerOK(k, Asked(u, k), a),
         NEW v, v = [u EXCEPT !.calls[Slot(k)].answer = a],
         Says(k, a, d), k = "action" => a.result # "ok",
         NEW y, \A l \in Reads \ {k} : l \in x => l \in y,
         k = "action" => y = x
  PROVE  Good(v, d, y)
<1>1. /\ Typed(v) /\ SameView(u, v) /\ SameOthers(u, v, k)
      /\ v.detailRequest = u.detailRequest
      /\ Busy(v, k) /\ Asked(v, k).answer = a
      /\ Asked(v, k).space = Asked(u, k).space
  BY AnsweredEffect DEF Good
<1>2. Chosen(v)
  BY <1>1, ChosenAnswered DEF Good
<1>3. /\ "action" \in Kinds /\ "list" \in Kinds /\ "describe" \in Kinds
      /\ "profiles" \in Kinds
      /\ "list" \in Reads /\ "describe" \in Reads /\ "profiles" \in Reads
  BY DEF Kinds, Reads
<1>4. ~Reported(v) => ~Reported(u)
  BY <1>1, <1>3 DEF Reported, Told, Result, SameOthers, SameSlot
<1>5. ASSUME NEW l \in Reads, l # k, Fresh(v, y, l)
      PROVE  Fresh(u, x, l)
  BY <1>1, <1>4, <1>5 DEF Fresh, SameView, SameRest
<1>6. ASSUME NEW l \in Reads, l # k PROVE SameSlot(u, v, l)
  BY <1>1, <1>6 DEF SameOthers, Kinds
<1>7. Told(v, k) => a.result = "ok" /\ Body(v, k) = a.body
  BY <1>1 DEF Told, Result, Body
<1>8. ListTrue(v, d, y)
  <2>1. CASE k = "list"
    BY <1>1, <1>7, <2>1 DEF ListTrue, Says
  <2>2. CASE k # "list"
    BY <1>1, <1>3, <1>5, <1>6, <2>2
    DEF Good, ListTrue, SameSlot, Told, Result, Body, SameView, SameRest
  <2> QED BY <2>1, <2>2
<1>9. DetailTrue(v, d, y)
  <2>1. CASE k = "describe"
    BY <1>1, <1>7, <2>1 DEF DetailTrue, Says
  <2>2. CASE k # "describe"
    BY <1>1, <1>3, <1>5, <1>6, <2>2
    DEF Good, DetailTrue, SameSlot, Told, Result, Body, SameView, SameRest
  <2> QED BY <2>1, <2>2
<1>10. ProfileTrue(v, d, y)
  <2>1. CASE k = "profiles"
    BY <1>1, <1>7, <2>1 DEF Good, ProfileTrue, Says, SameView, SameRest
  <2>2. CASE k # "profiles"
    BY <1>1, <1>3, <1>5, <1>6, <2>2
    DEF Good, ProfileTrue, SameSlot, Told, Result, Body, SameView, SameRest
  <2> QED BY <2>1, <2>2
<1> QED BY <1>1, <1>2, <1>8, <1>9, <1>10 DEF Good

\* A change that the Ui is going to hear of, or that no read has shown.
LEMMA UnseenGood ==
  ASSUME NEW u, NEW d, NEW x, Good(u, d, x), NEW e, NEW y,
         Reported(u) \/ Reads \subseteq y
  PROVE  Good(u, e, y)
<1>1. ASSUME NEW k \in Reads PROVE ~Fresh(u, y, k)
  BY DEF Fresh
<1> QED BY <1>1 DEF Good, ListTrue, DetailTrue, ProfileTrue, Reads

LEMMA ActionAnsweredGood ==
  ASSUME NEW u, NEW d, NEW x, Good(u, d, x), Busy(u, "action"), NEW a,
         NEW v, v = [u EXCEPT !.calls[Slot("action")].answer = a],
         NEW e, NEW y, a.result = "ok" \/ Reads \subseteq y
  PROVE  Good(v, e, y)
<1>0. "action" \in Kinds /\ AnswerOK("action", Asked(u, "action"), a)
  BY DEF Kinds, AnswerOK
<1>1. /\ Typed(v) /\ SameView(u, v) /\ SameOthers(u, v, "action")
      /\ v.detailRequest = u.detailRequest
      /\ Busy(v, "action") /\ Asked(v, "action").answer = a
      /\ Asked(v, "action").space = Asked(u, "action").space
  BY <1>0, AnsweredEffect DEF Good
<1>2. Chosen(v)
  BY <1>1, ChosenAnswered DEF Good
<1>3. ASSUME NEW k \in Reads PROVE ~Fresh(v, y, k)
  BY <1>1 DEF Fresh, Reported, Told, Result
<1>4. CreateDialog \notin v.dialogs => v.form = "none"
  BY <1>1 DEF Good, ProfileTrue, SameView, SameRest
<1> QED
  BY <1>1, <1>2, <1>3, <1>4 DEF Good, ListTrue, DetailTrue, ProfileTrue, Reads

DaemonOK(d) ==
  /\ d = [spaces |-> d.spaces, profile |-> d.profile]
  /\ d.spaces \in Rows /\ d.profile \in {"unbuilt", "ready"}

\* An action on its way to the daemon, with or without a Ui that waits for it.
RequestOK(c) == c.op \in Actions /\ Creates(c.op, c.space, c.encrypted)

LEMMA RowsChange ==
  ASSUME NEW f \in Rows
  PROVE  /\ \A s \in Ids, row \in Row :
              [i \in DOMAIN f \cup {s} |-> IF i = s THEN row ELSE f[i]] \in Rows
         /\ \A s \in DOMAIN f, state \in States :
              [f EXCEPT ![s].state = state] \in Rows
         /\ \A s : Restrict(f, DOMAIN f \ {s}) \in Rows
<1>1. DOMAIN f \in SUBSET Ids /\ f \in [DOMAIN f -> Row]
  BY DEF Rows
<1>2. ASSUME NEW S \in SUBSET Ids, NEW g \in [S -> Row] PROVE g \in Rows
  BY DEF Rows
<1> DEFINE D == DOMAIN f
<1>3. D \in SUBSET Ids /\ f \in [D -> Row] /\ D = DOMAIN f
  BY <1>1
<1> HIDE DEF D
<1>4. ASSUME NEW s \in Ids, NEW row \in Row
      PROVE  [i \in D \cup {s} |-> IF i = s THEN row ELSE f[i]] \in Rows
  <2>1. [i \in D \cup {s} |-> IF i = s THEN row ELSE f[i]] \in [D \cup {s} -> Row]
    BY <1>3
  <2>2. D \cup {s} \in SUBSET Ids
    BY <1>3
  <2> QED BY <1>2, <2>1, <2>2
<1>5. ASSUME NEW s \in D, NEW state \in States
      PROVE  [f EXCEPT ![s].state = state] \in Rows
  <2>1. f[s] \in Row
    BY <1>3
  <2>2. [f[s] EXCEPT !.state = state] \in Row
    BY <2>1 DEF Row
  <2>3. [f EXCEPT ![s].state = state] \in [D -> Row]
    BY <1>3, <2>2
  <2> QED BY <1>2, <1>3, <2>3
<1>6. ASSUME NEW s PROVE Restrict(f, D \ {s}) \in Rows
  <2>1. Restrict(f, D \ {s}) \in [D \ {s} -> Row]
    BY <1>3 DEF Restrict
  <2>2. D \ {s} \in SUBSET Ids
    BY <1>3
  <2> QED BY <1>2, <2>1, <2>2
<1> QED BY <1>3, <1>4, <1>5, <1>6

LEMMA DaemonChange ==
  ASSUME DaemonOK(daemon)
  PROVE  /\ \A s \in Ids, row \in Row : DaemonOK(WithRow(s, row))
         /\ \A s \in DOMAIN daemon.spaces, state \in States :
              DaemonOK(WithState(s, state))
         /\ \A s : DaemonOK(WithoutRow(s))
<1>1. ASSUME NEW f \in Rows, NEW d, d = [daemon EXCEPT !.spaces = f]
      PROVE  DaemonOK(d)
  BY <1>1 DEF DaemonOK
<1>2. daemon.spaces \in Rows
  BY DEF DaemonOK
<1>3. ASSUME NEW s \in Ids, NEW row \in Row PROVE DaemonOK(WithRow(s, row))
  BY <1>1, <1>2, RowsChange DEF WithRow
<1>4. ASSUME NEW s \in DOMAIN daemon.spaces, NEW state \in States
      PROVE  DaemonOK(WithState(s, state))
  <2>1. WithState(s, state) =
          [daemon EXCEPT !.spaces = [daemon.spaces EXCEPT ![s].state = state]]
    BY DEF WithState, DaemonOK
  <2> QED BY <1>1, <1>2, <2>1, RowsChange
<1>5. ASSUME NEW s PROVE DaemonOK(WithoutRow(s))
  BY <1>1, <1>2, RowsChange DEF WithoutRow
<1> QED BY <1>3, <1>4, <1>5

\* The handlers leave a daemon.
LEMMA EffectTyped ==
  ASSUME DaemonOK(daemon), NEW c, RequestOK(c), Legal(c)
  PROVE  DaemonOK(Effect(c))
<1>1. CASE c.op = "create"
  <2>1. PICK row \in Row : row = [state |-> "stopped", encrypted |-> c.encrypted]
    BY <1>1 DEF RequestOK, Creates, Row, States
  <2>2. Effect(c) = WithRow(c.space, row)
    BY <1>1, <2>1 DEF Effect
  <2> QED BY <1>1, <2>2, DaemonChange DEF RequestOK, Creates
<1>2. CASE c.op = "build"
  <2>1. Effect(c) = [daemon EXCEPT !.profile = "ready"]
    BY <1>2 DEF Effect
  <2> QED BY <2>1 DEF DaemonOK
<1>3. CASE c.op \notin {"create", "build"}
  <2>1. c.space \in DOMAIN daemon.spaces
    BY <1>3 DEF Legal
  <2>2. Effect(c) \in {WithState(c.space, "running"), WithState(c.space, "stopped"),
                       WithoutRow(c.space), daemon}
    BY <1>3 DEF Effect
  <2> QED BY <2>1, <2>2, DaemonChange DEF States
<1> QED BY <1>1, <1>2, <1>3

\* The inductive invariant.
Inv ==
  /\ Good(ui, daemon, unseen) /\ DaemonOK(daemon)
  /\ \A c \in late : RequestOK(c)
  /\ unseen \subseteq Reads

LEMMA InvInit == Init => Inv
<1> SUFFICES ASSUME Init PROVE Inv
  OBVIOUS
<1>1. IsUi(EmptyUi) /\ EmptyUi.closed = FALSE
  BY DEF EmptyUi, IsUi
<1>2. Good(EmptyUi, daemon, unseen)
  <2>1. PICK c \in BOOLEAN : c = EmptyUi.closed
    BY <1>1
  <2>2. EmptyUi = [EmptyUi EXCEPT !.closed = c]
    BY <1>1, <2>1 DEF IsUi
  <2> QED BY <2>2, EmptyGood
<1>3. Good(ui, daemon, unseen)
  BY <1>2, RefreshGood DEF Init
<1>4. DaemonOK(daemon)
  BY ManagerAssumption DEF Init, DaemonOK
<1> QED BY <1>3, <1>4 DEF Init, Inv

\* The slot of a call, and what it asks.
LEMMA WhichCall ==
  ASSUME Inv, NEW id, Waiting(id)
  PROVE  \E k \in Kinds :
           /\ id = Slot(k) /\ Busy(ui, k) /\ Result(ui, k) = "none"
           /\ Asked(ui, k) = ui.calls[id] /\ CallOK(k, Asked(ui, k))
           /\ k = "action" <=> ui.calls[id].op \in Actions
           /\ k \in Reads <=> ui.calls[id].op \in Reads
           /\ k \in Reads => ui.calls[id].op = k
<1>1. PICK k \in Kinds : id = Slot(k)
  BY DEF Inv, Good, Typed, Owned, Waiting
<1>2. Busy(ui, k) /\ Asked(ui, k) = ui.calls[id] /\ Result(ui, k) = "none"
  BY <1>1 DEF Waiting, Busy, Asked, Result
<1>3. CallOK(k, Asked(ui, k))
  BY <1>2 DEF Inv, Good, Typed, CallsOK
<1>4. IF k = "action" THEN ui.calls[id].op \in Actions ELSE ui.calls[id].op = k
  BY <1>2, <1>3 DEF CallOK
<1>5. Reads \cap Actions = {} /\ "action" \notin Reads
  BY DEF Reads, Actions, Immediate, Confirmed
<1> QED BY <1>1, <1>2, <1>3, <1>4, <1>5 DEF Kinds

LEMMA CallIsRequest ==
  ASSUME NEW k, NEW c, CallOK(k, c), k = "action"
  PROVE  RequestOK(c)
  BY DEF CallOK, RequestOK

\* The call id is the read of k, and its answer a is typed and right.
ReadGets(id, k, a) ==
  /\ Busy(ui, k) /\ Result(ui, k) = "none" /\ ui.calls[id].op = k
  /\ ui' = [ui EXCEPT !.calls[Slot(k)].answer = a]
  /\ AnswerOK(k, Asked(ui, k), a) /\ Says(k, a, daemon)

\* What the daemon says to a read.
LEMMA ReadAnswer ==
  ASSUME Inv, NEW id, ServeRead(id)
  PROVE  \E k \in Reads : \E a : ReadGets(id, k, a)
<1>0. Waiting(id) /\ ui.calls[id].op \in Reads
  BY DEF ServeRead
<1>1. PICK k \in Kinds :
        /\ id = Slot(k) /\ Busy(ui, k) /\ Result(ui, k) = "none"
        /\ Asked(ui, k) = ui.calls[id] /\ CallOK(k, Asked(ui, k))
        /\ k \in Reads /\ ui.calls[id].op = k
  BY <1>0, WhichCall
<1> DEFINE c == ui.calls[id]
<1>3. daemon.spaces \in Rows /\ daemon.profile \in {"unbuilt", "ready"}
  BY DEF Inv, DaemonOK
<1>4. CASE k = "list"
  <2> DEFINE a == [result |-> "ok", body |-> daemon.spaces]
  <2>1. ui' = [ui EXCEPT !.calls[Slot(k)].answer = a]
    BY <1>1, <1>4 DEF ServeRead, Answered
  <2>2. a.result = "ok" /\ a.body = daemon.spaces
    OBVIOUS
  <2> HIDE DEF a
  <2>3. AnswerOK(k, Asked(ui, k), a) /\ Says(k, a, daemon)
    BY <1>3, <1>4, <2>2 DEF AnswerOK, Says
  <2> QED BY <1>1, <2>1, <2>3 DEF ReadGets
<1>5. CASE k = "profiles"
  <2> DEFINE a == [result |-> "ok", body |-> daemon.profile]
  <2>1. ui' = [ui EXCEPT !.calls[Slot(k)].answer = a]
    BY <1>1, <1>5 DEF ServeRead, Answered
  <2>2. a.result = "ok" /\ a.body = daemon.profile
    OBVIOUS
  <2> HIDE DEF a
  <2>3. AnswerOK(k, Asked(ui, k), a) /\ Says(k, a, daemon)
    BY <1>3, <1>5, <2>2 DEF AnswerOK, Says
  <2> QED BY <1>1, <2>1, <2>3 DEF ReadGets
<1>6. CASE k = "describe" /\ c.space \in DOMAIN daemon.spaces
  <2> DEFINE b == [space |-> c.space, row |-> daemon.spaces[c.space]]
             a == [result |-> "ok", body |-> b]
  <2>1. ui' = [ui EXCEPT !.calls[Slot(k)].answer = a]
    BY <1>1, <1>6 DEF ServeRead, Answered
  <2>2. daemon.spaces[c.space] \in Row
    BY <1>3, <1>6 DEF Rows
  <2>3. b \in [space : {c.space}, row : Row] /\ Right(b, daemon)
    BY <1>6, <2>2 DEF Right
  <2>4. a.result = "ok" /\ a.body = b
    OBVIOUS
  <2> HIDE DEF a, b
  <2>5. AnswerOK(k, Asked(ui, k), a) /\ Says(k, a, daemon)
    BY <1>1, <1>6, <2>3, <2>4 DEF AnswerOK, Says
  <2> QED BY <1>1, <2>1, <2>5 DEF ReadGets
<1>7. CASE k = "describe" /\ c.space \notin DOMAIN daemon.spaces
  <2> DEFINE a == [result |-> "refused", body |-> None]
  <2>1. ui' = [ui EXCEPT !.calls[Slot(k)].answer = a]
    BY <1>1, <1>7 DEF ServeRead, Answered
  <2>2. a.result = "refused"
    OBVIOUS
  <2> HIDE DEF a
  <2>3. AnswerOK(k, Asked(ui, k), a) /\ Says(k, a, daemon)
    BY <2>2 DEF AnswerOK, Says
  <2> QED BY <1>1, <2>1, <2>3 DEF ReadGets
<1> QED BY <1>1, <1>4, <1>5, <1>6, <1>7 DEF Reads

LEMMA ServeReadGood ==
  ASSUME Inv, NEW id, ServeRead(id)
  PROVE  Inv'
<1>0. PICK k \in Reads : \E a : ReadGets(id, k, a)
  BY ReadAnswer
<1>a. PICK a : ReadGets(id, k, a)
  BY <1>0
<1>1. /\ Busy(ui, k) /\ Result(ui, k) = "none" /\ ui.calls[id].op = k
      /\ ui' = [ui EXCEPT !.calls[Slot(k)].answer = a]
      /\ AnswerOK(k, Asked(ui, k), a) /\ Says(k, a, daemon)
  BY <1>a DEF ReadGets
<1>2. k # "action" /\ k \in Kinds
  BY DEF Reads, Kinds
<1>3. unseen' = unseen \ {k} /\ daemon' = daemon /\ late' = late
  BY <1>1 DEF ServeRead
<1>4. ASSUME NEW v, v = [ui EXCEPT !.calls[Slot(k)].answer = a],
             NEW y, y = unseen \ {k}
      PROVE  Good(v, daemon, y)
  BY <1>1, <1>2, <1>4, AnsweredGood DEF Inv
<1>5. Good(ui', daemon, unseen')
  BY <1>1, <1>3, <1>4
<1> QED BY <1>3, <1>5 DEF Inv

\* An answer that reports no success, when nothing else has changed.
LEMMA RefusedGood ==
  ASSUME Inv, NEW id, Waiting(id), NEW result, result # "ok",
         Answered(id, result, None), UNCHANGED <<daemon, unseen>>
  PROVE  Good(ui, daemon, unseen)'
<1>1. PICK k \in Kinds : id = Slot(k) /\ Busy(ui, k) /\ Result(ui, k) = "none"
  BY WhichCall
<1> DEFINE a == [result |-> result, body |-> None]
<1>2. ui' = [ui EXCEPT !.calls[Slot(k)].answer = a]
  BY <1>1 DEF Answered
<1>3. a.result # "ok"
  OBVIOUS
<1> HIDE DEF a
<1>4. AnswerOK(k, Asked(ui, k), a) /\ Says(k, a, daemon)
  BY <1>3 DEF AnswerOK, Says
<1>5. ASSUME NEW v, v = [ui EXCEPT !.calls[Slot(k)].answer = a]
      PROVE  Good(v, daemon, unseen)
  BY <1>1, <1>3, <1>4, <1>5, AnsweredGood DEF Inv
<1> QED BY <1>2, <1>5

\* An action ends: the Ui hears of it, or every read is behind.
LEMMA EndedGood ==
  ASSUME Inv, NEW id, Waiting(id), ui.calls[id].op \in Actions, NEW result,
         Answered(id, result, None), result = "ok" \/ unseen' = Reads
  PROVE  Good(ui, daemon, unseen)'
<1>1. id = Slot("action") /\ Busy(ui, "action")
  BY WhichCall
<1> DEFINE a == [result |-> result, body |-> None]
<1>2. ui' = [ui EXCEPT !.calls[Slot("action")].answer = a]
  BY <1>1 DEF Answered
<1>3. a.result = result
  OBVIOUS
<1> HIDE DEF a
<1>5. ASSUME NEW v, v = [ui EXCEPT !.calls[Slot("action")].answer = a],
             NEW e, NEW y, result = "ok" \/ y = Reads
      PROVE  Good(v, e, y)
  BY <1>1, <1>3, <1>5, ActionAnsweredGood DEF Inv
<1> QED BY <1>2, <1>5

LEMMA ServeActionGood ==
  ASSUME Inv, NEW id, ServeAction(id)
  PROVE  Inv'
<1>0. Waiting(id) /\ ui.calls[id].op \in Actions
  BY DEF ServeAction
<1>1. RequestOK(ui.calls[id])
  BY <1>0, WhichCall, CallIsRequest
<1>2. CASE Carry(id)
  <2>1. Good(ui, daemon, unseen)'
    BY <1>0, <1>2, EndedGood DEF Carry
  <2>2. DaemonOK(daemon')
    BY <1>1, <1>2, EffectTyped DEF Carry, Inv
  <2> QED BY <1>2, <2>1, <2>2 DEF Carry, Inv
<1>3. CASE Refuse(id)
  <2>1. Good(ui, daemon, unseen)'
    BY <1>0, <1>3, RefusedGood DEF Refuse
  <2> QED BY <1>3, <2>1 DEF Refuse, Inv
<1>4. CASE WrongPassphrase(id)
  <2>1. Good(ui, daemon, unseen)'
    BY <1>0, <1>4, RefusedGood DEF WrongPassphrase
  <2> QED BY <1>4, <2>1 DEF WrongPassphrase, Inv
<1>5. CASE FailHalfway(id)
  <2>1. Good(ui, daemon, unseen)'
    BY <1>0, <1>5, EndedGood DEF FailHalfway
  <2>2. DaemonOK(daemon')
    BY <1>1, <1>5, EffectTyped DEF FailHalfway, Inv
  <2> QED BY <1>5, <2>1, <2>2 DEF FailHalfway, Inv
<1> QED BY <1>2, <1>3, <1>4, <1>5 DEF ServeAction

LEMMA AnswerInv ==
  ASSUME Inv, NEW id, Answer(id)
  PROVE  Inv'
<1>1. CASE ServeRead(id)
  BY <1>1, ServeReadGood
<1>2. CASE ServeAction(id)
  BY <1>2, ServeActionGood
<1>3. CASE GiveUpRead(id)
  <2>1. Good(ui, daemon, unseen)'
    BY <1>3, RefusedGood DEF GiveUpRead
  <2> QED BY <1>3, <2>1 DEF GiveUpRead, Inv
<1>4. CASE GiveUpAction(id)
  <2>1. Good(ui, daemon, unseen)'
    BY <1>4, RefusedGood DEF GiveUpAction
  <2>2. RequestOK(ui.calls[id])
    BY <1>4, WhichCall, CallIsRequest DEF GiveUpAction
  <2> QED BY <1>4, <2>1, <2>2 DEF GiveUpAction, Inv
<1> QED BY <1>1, <1>2, <1>3, <1>4 DEF Answer

LEMMA LateEffectInv ==
  ASSUME Inv, NEW c \in late, LateEffect(c)
  PROVE  Inv'
<1>1. DaemonOK(daemon')
  BY EffectTyped DEF LateEffect, Inv
<1>2. Good(ui', daemon', unseen')
  BY UnseenGood DEF LateEffect, Inv
<1> QED BY <1>1, <1>2 DEF LateEffect, Inv

LEMMA ChangeElsewhereInv ==
  ASSUME Inv, NEW i \in Ids, ChangeElsewhere(i)
  PROVE  Inv'
<1>1. DaemonOK(daemon')
  <2>1. CASE i \in DOMAIN daemon.spaces /\ \E state \in States : daemon' = WithState(i, state)
    BY <2>1, DaemonChange DEF Inv
  <2>2. CASE \E e \in Encryption :
               daemon' = WithRow(i, [state |-> "stopped", encrypted |-> e])
    <3>1. PICK e \in Encryption :
            daemon' = WithRow(i, [state |-> "stopped", encrypted |-> e])
      BY <2>2
    <3>2. [state |-> "stopped", encrypted |-> e] \in Row
      BY DEF Row, States
    <3> QED BY <3>1, <3>2, DaemonChange DEF Inv
  <2>3. CASE daemon' = WithoutRow(i)
    BY <2>3, DaemonChange DEF Inv
  <2> QED BY <2>1, <2>2, <2>3 DEF ChangeElsewhere
<1>2. Good(ui', daemon', unseen')
  BY UnseenGood DEF ChangeElsewhere, Inv
<1> QED BY <1>1, <1>2 DEF ChangeElsewhere, Inv

LEMMA CloseWindowInv ==
  ASSUME Inv, CloseWindow
  PROVE  Inv'
<1>1. Good(ui', daemon, unseen)
  <2>1. PICK c \in BOOLEAN : c = TRUE
    OBVIOUS
  <2>2. ui' = [EmptyUi EXCEPT !.closed = c]
    BY <2>1 DEF CloseWindow
  <2> QED BY <2>2, EmptyGood
<1>2. ASSUME NEW c \in late' PROVE RequestOK(c)
  <2>1. CASE c \in late
    BY <2>1 DEF Inv
  <2>2. CASE c \notin late
    <3>1. PICK id : Waiting(id) /\ c = ui.calls[id] /\ c.op \in Actions
      BY <2>2 DEF CloseWindow
    <3> QED BY <3>1, WhichCall, CallIsRequest
  <2> QED BY <2>1, <2>2
<1> QED BY <1>1, <1>2 DEF CloseWindow, Inv

LEMMA InvStep == Inv /\ [Next]_vars => Inv'
<1> SUFFICES ASSUME Inv, [Next]_vars PROVE Inv'
  OBVIOUS
<1>0. ASSUME OthersIdle, Good(ui', daemon, unseen) PROVE Inv'
  BY <1>0 DEF OthersIdle, Inv
<1>1. CASE UNCHANGED vars
  BY <1>1 DEF Inv, vars
<1>2. CASE CloseWindow
  BY <1>2, CloseWindowInv
<1>3. CASE Operator /\ ~CloseWindow
  <2>1. OthersIdle
    BY <1>3 DEF Operator, ClickRow, Navigate, Filter, ClickOperation, ClickConfirmed,
                Confirm, SubmitPassphrase, StartNow, Cancel, OpenCreateDialog,
                SubmitCreate, BuildInForm, BuildOnPage
  <2>2. Good(ui', daemon, unseen)
    BY <1>3, OperatorGood DEF Inv
  <2> QED BY <1>0, <2>1, <2>2
<1>4. CASE PollRefresh
  BY <1>0, <1>4, PollGood DEF Inv, PollRefresh
<1>5. ASSUME NEW id \in CallIds, Done(id) PROVE Inv'
  BY <1>0, <1>5, HandleDoneGood DEF Inv, Done
<1>6. ASSUME NEW id \in CallIds, Answer(id) PROVE Inv'
  BY <1>6, AnswerInv
<1>7. ASSUME NEW c \in late, LateEffect(c) PROVE Inv'
  BY <1>7, LateEffectInv
<1>8. ASSUME NEW i \in Ids, ChangeElsewhere(i) PROVE Inv'
  BY <1>8, ChangeElsewhereInv
<1> QED
  BY <1>1, <1>2, <1>3, <1>4, <1>5, <1>6, <1>7, <1>8 DEF Next

LEMMA Invariant == Spec => []Inv
  BY InvInit, InvStep, PTL DEF Spec

-----------------------------------------------------------------------------
(* Results.                                                                *)

LEMMA SlotsInUse ==
  ASSUME Inv
  PROVE  Range(ui.latest) \cup {ui.pending.id} =
           DOMAIN ui.calls \cup
             (IF \A k \in Kinds : Busy(ui, k) THEN {} ELSE {NoId})
<1>1. Owned(ui) /\ DOMAIN ui.latest = Reads
  BY DEF Inv, Good, Typed, Owned
<1>2. ui.pending.id = IF Busy(ui, "action") THEN Slot("action") ELSE NoId
  BY <1>1 DEF Owned, NoAction
<1>3. \A id : id \in Range(ui.latest) <=> \E k \in Reads : ui.latest[k] = id
  BY <1>1 DEF Range
<1>4. \A id : id \in DOMAIN ui.calls <=> \E k \in Kinds : id = Slot(k) /\ Busy(ui, k)
  BY <1>1 DEF Owned, Busy
<1>5. \A k \in Reads : ui.latest[k] = IF Busy(ui, k) THEN Slot(k) ELSE NoId
  BY <1>1 DEF Owned
<1> QED BY <1>2, <1>3, <1>4, <1>5 DEF Kinds

\* For every set of spaces, operations, searches and failures: the window, its
\* requests and the daemon have the types they are given.
THEOREM ManagerTypeCorrect == Spec => []TypeOK
<1>1. Inv => TypeOK
  <2> SUFFICES ASSUME Inv PROVE TypeOK
    OBVIOUS
  <2>1. DOMAIN ui.calls \subseteq CallIds
    BY SlotsDiffer DEF Inv, Good, Typed, Owned
  <2>2. Range(ui.latest) \cup {ui.pending.id} \subseteq CallIds \cup {NoId}
    BY <2>1, SlotsInUse
  <2>3. ViewOK(ui) /\ DaemonOK(daemon) /\ \A c \in late : c.op \in Actions
    BY DEF Inv, Good, Typed, RequestOK
  <2> QED BY <2>1, <2>2, <2>3 DEF TypeOK, Inv, ViewOK, DaemonOK
<1> QED BY <1>1, Invariant, PTL

\* Every request on its way is the one its slot waits for and no slot waits for a
\* request that is gone (Daemon::send, handle_done): no answer is lost.
THEOREM AnswersHaveOwners == Spec => []EveryAnswerHasAnOwner
<1>1. Inv => EveryAnswerHasAnOwner
  <2> SUFFICES ASSUME Inv PROVE EveryAnswerHasAnOwner
    OBVIOUS
  <2>1. NoId \notin DOMAIN ui.calls
    BY SlotsDiffer DEF Inv, Good, Typed, Owned
  <2> QED BY <2>1, SlotsInUse DEF EveryAnswerHasAnOwner
<1> QED BY <1>1, Invariant, PTL

\* The details on screen are those of the space that is selected and listed,
\* whatever was selected while they were on their way (handle_done, select_space).
THEOREM DetailsAreOfSelected == Spec => []DetailsOfSelected
<1>1. Inv => DetailsOfSelected
  BY DEF Inv, Good, Chosen, DetailsOfSelected
<1> QED BY <1>1, Invariant, PTL

LEMMA SettledMeans ==
  ASSUME Inv, NEW k \in Reads, Settled(k)
  PROVE  Fresh(ui, unseen, k) /\ ~Busy(ui, k) /\ ui.connected
<1>1. ~Busy(ui, k)
  BY SlotsDiffer DEF Settled, Inv, Good, Typed, Owned, Kinds
<1>2. ~Busy(ui, "action")
  BY SlotsDiffer DEF Settled, Idle, Inv, Good, Typed, Owned, NoAction, Kinds
<1> QED BY <1>1, <1>2 DEF Settled, Shown, Idle, Fresh, Reported, Told

\* Once an action has ended and no list is on its way, the list on screen is the
\* daemon's, however the answers of before overtook the action (list_again).
THEOREM ListFollows == Spec => []ListFollowsActions
<1>1. Inv => ListFollowsActions
  BY SettledMeans DEF Inv, Good, ListTrue, ListFollowsActions, Reads
<1> QED BY <1>1, Invariant, PTL

\* The same of the details (selection_epoch).
THEOREM DetailsFollow == Spec => []DetailsFollowActions
<1>1. Inv => DetailsFollowActions
  BY SettledMeans DEF Inv, Good, DetailTrue, Right, DetailsFollowActions, Reads
<1> QED BY <1>1, Invariant, PTL

\* The same of the profile's image, on its page and in the form (profiles_again).
THEOREM ProfilesFollow == Spec => []ProfilesFollowActions
<1>1. Inv => ProfilesFollowActions
  BY SettledMeans DEF Inv, Good, ProfileTrue, ProfilesFollowActions, Reads
<1> QED BY <1>1, Invariant, PTL

-----------------------------------------------------------------------------
(* A space just created is selected when it first appears.                 *)

LEMMA RequestsKeepAwaited ==
  ASSUME NEW u, Typed(u)
  PROVE  /\ \A k \in Reads : Refresh(u, k).pendingSelect = u.pendingSelect
         /\ \A s : RefreshDetail(u, s).pendingSelect = u.pendingSelect
         /\ \A s \in Ids \cup {None} : SelectSpace(u, s).pendingSelect = u.pendingSelect
         /\ FilterSpaces(u).pendingSelect = u.pendingSelect
         /\ \A dialog : Close(u, dialog).pendingSelect = u.pendingSelect
         /\ NextEpoch(u).pendingSelect = u.pendingSelect
<1>0. IsUi(u) /\ Owned(u)
  BY DEF Typed
<1>1. ASSUME NEW k \in Reads PROVE Refresh(u, k).pendingSelect = u.pendingSelect
  BY <1>0, RefreshEffect DEF SameView, SameRest
<1>2. ASSUME NEW s PROVE RefreshDetail(u, s).pendingSelect = u.pendingSelect
  BY <1>0, RefreshDetailEffect DEF SameView, SameRest
<1>4. ASSUME NEW s \in Ids \cup {None}
      PROVE  SelectSpace(u, s).pendingSelect = u.pendingSelect
  BY SelectEffect DEF SelectRel, SameRest
<1>5. FilterSpaces(u).pendingSelect = u.pendingSelect
  BY FilterEffect DEF SelectRel, SameRest
<1>6. ASSUME NEW dialog PROVE Close(u, dialog).pendingSelect = u.pendingSelect
  BY <1>0 DEF Close, IsUi
<1>7. NextEpoch(u).pendingSelect = u.pendingSelect
  BY EpochEffect DEF SameView, SameRest
<1> QED BY <1>1, <1>2, <1>4, <1>5, <1>6, <1>7

LEMMA SendKeepsAwaited ==
  ASSUME NEW u, Typed(u), NEW kind, NEW op, NEW s, NEW e, NEW p
  PROVE  SameAwaited(u, SendAction(u, kind, op, s, e, p))
<1>1. IsUi(u) /\ Owned(u)
  BY DEF Typed
<1> QED BY <1>1, SendActionEffect DEF SameView, SameRest, SameAwaited

LEMMA AskKeepsAwaited ==
  ASSUME NEW u, Typed(u), NEW op, NEW s, NEW e
  PROVE  AskOrSend(u, op, s, e).pendingSelect = u.pendingSelect
<1>1. CASE e
  <2> DEFINE p == Dialog("passphrase", op, s, TRUE)
  <2>1. AskOrSend(u, op, s, e) = [u EXCEPT !.dialogs = @ \cup {p}]
    BY <1>1 DEF AskOrSend
  <2> HIDE DEF p
  <2> QED BY <2>1 DEF Typed, IsUi
<1>2. CASE ~e
  <2>1. AskOrSend(u, op, s, e) = SendAction(u, "other", op, s, FALSE, FALSE)
    BY <1>2 DEF AskOrSend
  <2>2. SameAwaited(u, AskOrSend(u, op, s, e))
    BY <2>1, SendKeepsAwaited
  <2> QED BY <2>2 DEF SameAwaited
<1> QED BY <1>1, <1>2

LEMMA PollKeepsAwaited ==
  ASSUME Good(ui, daemon, unseen), PollRefresh
  PROVE  ui'.pendingSelect = ui.pendingSelect
<1> DEFINE v == Refresh(ui, "list")
           w == CASE v.page = "images" -> Refresh(v, "profiles")
                  [] v.page = "spaces" /\ v.selected # None ->
                       RefreshDetail(v, v.selected)
                  [] OTHER -> v
<1>0. "list" \in Reads /\ "profiles" \in Reads
  BY DEF Reads
<1>1. ui' = IF CreateDialog \in w.dialogs THEN Refresh(w, "profiles") ELSE w
  BY DEF PollRefresh
<1>2. Typed(v) /\ v.pendingSelect = ui.pendingSelect
  BY <1>0, RefreshTyped, RequestsKeepAwaited DEF Good
<1> HIDE DEF v
<1>3. Typed(w) /\ w.pendingSelect = ui.pendingSelect
  <2>1. CASE v.page = "images"
    BY <1>0, <1>2, <2>1, RefreshTyped, RequestsKeepAwaited
  <2>2. CASE v.page = "spaces" /\ v.selected # None
    <3>1. v.selected \in Ids
      BY <1>2, <2>2, SelectedIsId
    <3>2. /\ Typed(RefreshDetail(v, v.selected))
          /\ RefreshDetail(v, v.selected).pendingSelect = ui.pendingSelect
      BY <1>2, <3>1, RefreshDetailTyped, RequestsKeepAwaited
    <3> QED BY <2>2, <3>2
  <2>3. CASE v.page # "images" /\ ~(v.page = "spaces" /\ v.selected # None)
    BY <1>2, <2>3
  <2> QED BY <2>1, <2>2, <2>3
<1> HIDE DEF w
<1> QED BY <1>0, <1>1, <1>3, RequestsKeepAwaited

LEMMA OperatorKeepsAwaited ==
  ASSUME Good(ui, daemon, unseen), Operator, ~CloseWindow
  PROVE  ui'.pendingSelect = ui.pendingSelect
<1>t. Typed(ui) /\ "profiles" \in Reads
  BY DEF Good, Reads
<1>1. ASSUME NEW s \in Ids \cup {None}, ClickRow(s)
      PROVE  ui'.pendingSelect = ui.pendingSelect
  BY <1>1, <1>t, RequestsKeepAwaited DEF ClickRow
<1>2. ASSUME NEW page \in Pages, Navigate(page)
      PROVE  ui'.pendingSelect = ui.pendingSelect
  <2> DEFINE v == [ui EXCEPT !.page = page]
  <2>1. ui' = IF page = "images" THEN Refresh(v, "profiles") ELSE v
    BY <1>2 DEF Navigate
  <2>2. Typed(v)
    BY PageGood, ManagerAssumption DEF Good
  <2>3. v.pendingSelect = ui.pendingSelect
    BY <1>t DEF Typed, IsUi
  <2> HIDE DEF v
  <2> QED BY <1>t, <2>1, <2>2, <2>3, RequestsKeepAwaited
<1>3. ASSUME NEW search \in Searches, NEW r \in BOOLEAN, Filter(search, r)
      PROVE  ui'.pendingSelect = ui.pendingSelect
  <2> DEFINE v == [ui EXCEPT !.search = search, !.runningOnly = r]
  <2>1. ui' = FilterSpaces(v)
    BY <1>3 DEF Filter
  <2>2. Typed(v)
    BY SearchGood, ManagerAssumption DEF Good
  <2>3. v.pendingSelect = ui.pendingSelect
    BY <1>t DEF Typed, IsUi
  <2> HIDE DEF v
  <2> QED BY <2>1, <2>2, <2>3, RequestsKeepAwaited
<1>4. ASSUME NEW op, ClickOperation(op)
      PROVE  ui'.pendingSelect = ui.pendingSelect
  BY <1>4, <1>t, AskKeepsAwaited DEF ClickOperation
<1>5. ASSUME NEW op, ClickConfirmed(op)
      PROVE  ui'.pendingSelect = ui.pendingSelect
  <2> DEFINE p == Dialog("confirm", op, ui.selected, FALSE)
  <2>1. ui' = [ui EXCEPT !.dialogs = @ \cup {p}]
    BY <1>5 DEF ClickConfirmed
  <2> HIDE DEF p
  <2> QED BY <1>t, <2>1 DEF Typed, IsUi
<1>6. ASSUME NEW dialog, Confirm(dialog)
      PROVE  ui'.pendingSelect = ui.pendingSelect
  <2>1. Typed(Close(ui, dialog)) /\ Close(ui, dialog).pendingSelect = ui.pendingSelect
    BY <1>t, CloseGood, RequestsKeepAwaited DEF Good
  <2> QED BY <1>6, <2>1, AskKeepsAwaited DEF Confirm
<1>7. ASSUME NEW dialog \in ui.dialogs, SubmitPassphrase(dialog)
      PROVE  ui'.pendingSelect = ui.pendingSelect
  <2>1. dialog.space \in Ids /\ dialog.op \in Actions \ {"create"}
    BY <1>7, <1>t DEF SubmitPassphrase, DialogOK, Typed, ViewOK
  <2> DEFINE v == SendAction(ui, "passphrase", dialog.op, dialog.space, TRUE, TRUE)
  <2>2. ui' = Close(v, dialog)
    BY <1>7 DEF SubmitPassphrase
  <2>3. Typed(v)
    BY <1>t, <2>1, SendActionTyped DEF Creates
  <2>4. SameAwaited(ui, v)
    BY <1>t, SendKeepsAwaited
  <2> HIDE DEF v
  <2> QED BY <2>2, <2>3, <2>4, RequestsKeepAwaited DEF SameAwaited
<1>8. ASSUME NEW dialog \in ui.dialogs, StartNow(dialog)
      PROVE  ui'.pendingSelect = ui.pendingSelect
  <2>1. dialog.space \in Ids /\ "start" \in Actions \ {"create"}
    BY <1>8, <1>t DEF StartNow, DialogOK, Actions, Immediate, Typed, ViewOK
  <2> DEFINE v == AskOrSend(ui, "start", dialog.space, dialog.encrypted)
  <2>2. ui' = Close(v, dialog)
    BY <1>8 DEF StartNow
  <2>3. Typed(v)
    BY <2>1, AskOrSendGood DEF Good
  <2>4. v.pendingSelect = ui.pendingSelect
    BY <1>t, AskKeepsAwaited
  <2> HIDE DEF v
  <2> QED BY <2>2, <2>3, <2>4, RequestsKeepAwaited
<1>9. ASSUME NEW dialog, Cancel(dialog)
      PROVE  ui'.pendingSelect = ui.pendingSelect
  BY <1>9, <1>t, RequestsKeepAwaited DEF Cancel
<1>10. CASE OpenCreateDialog
  <2> DEFINE v == [ui EXCEPT !.dialogs = @ \cup {CreateDialog}, !.form = "none"]
  <2>1. ui' = Refresh(v, "profiles")
    BY <1>10 DEF OpenCreateDialog
  <2>2. Typed(v)
    BY OpenFormGood DEF Good
  <2>3. v.pendingSelect = ui.pendingSelect
    BY <1>t DEF Typed, IsUi
  <2> HIDE DEF v
  <2> QED BY <1>t, <2>1, <2>2, <2>3, RequestsKeepAwaited
<1>11. ASSUME NEW s \in Ids, NEW e \in Encryption, SubmitCreate(s, e)
       PROVE  ui'.pendingSelect = ui.pendingSelect
  <2> DEFINE v == SendAction(ui, "create", "create", s, e, e)
  <2>1. ui' = Close(v, CreateDialog)
    BY <1>11 DEF SubmitCreate
  <2>2. Typed(v) /\ SameAwaited(ui, v)
    BY <1>t, SendActionTyped, SendKeepsAwaited DEF Creates, Actions
  <2> HIDE DEF v
  <2> QED BY <2>1, <2>2, RequestsKeepAwaited DEF SameAwaited
<1>12. CASE BuildInForm \/ BuildOnPage
  <2>1. ui' = SendAction(ui, "other", "build", None, FALSE, FALSE)
    BY <1>12 DEF BuildInForm, BuildOnPage
  <2>2. SameAwaited(ui, ui')
    BY <1>t, <2>1, SendKeepsAwaited
  <2> QED BY <2>2 DEF SameAwaited
<1> QED
  BY <1>1, <1>2, <1>3, <1>4, <1>5, <1>6, <1>7, <1>8, <1>9, <1>10, <1>11, <1>12
  DEF Operator

LEMMA AwaitedStep ==
  ASSUME Inv, [Next]_vars
  PROVE  ui'.closed \/ Awaited(ui, ui')
<1>0. Good(ui, daemon, unseen) /\ IsUi(ui)
  BY DEF Inv, Good, Typed
<1>1. CASE ui'.pendingSelect = ui.pendingSelect
  BY <1>1 DEF Awaited
<1>2. CASE CloseWindow
  BY <1>2 DEF CloseWindow, EmptyUi
<1>3. CASE Operator /\ ~CloseWindow
  BY <1>0, <1>1, <1>3, OperatorKeepsAwaited
<1>4. CASE PollRefresh
  BY <1>0, <1>1, <1>4, PollKeepsAwaited
<1>5. ASSUME NEW id \in CallIds, Done(id) PROVE Awaited(ui, ui')
  BY <1>0, <1>5, HandleDoneGood DEF Done
<1>6. ASSUME NEW id, NEW result, NEW body, Answered(id, result, body)
      PROVE  ui'.pendingSelect = ui.pendingSelect
  <2> DEFINE f == [ui.calls EXCEPT ![id].answer = [result |-> result, body |-> body]]
  <2>1. ui' = [ui EXCEPT !.calls = f]
    BY <1>0, <1>6 DEF Answered, IsUi
  <2> HIDE DEF f
  <2> QED BY <1>0, <2>1 DEF IsUi
<1>7. ASSUME NEW id \in CallIds, Answer(id) PROVE ui'.pendingSelect = ui.pendingSelect
  <2>1. CASE ServeRead(id)
    <3>1. \E result, body : Answered(id, result, body)
      BY <2>1 DEF ServeRead
    <3> QED BY <1>6, <3>1
  <2>2. CASE ~ServeRead(id)
    <3>1. \E result, body : Answered(id, result, body)
      BY <1>7, <2>2 DEF Answer, ServeAction, Carry, Refuse, WrongPassphrase,
                        FailHalfway, GiveUpRead, GiveUpAction
    <3> QED BY <1>6, <3>1
  <2> QED BY <2>1, <2>2
<1>8. CASE UNCHANGED vars
  BY <1>1, <1>8 DEF vars
<1>9. ASSUME NEW c \in late, LateEffect(c) PROVE ui'.pendingSelect = ui.pendingSelect
  BY <1>9 DEF LateEffect
<1>10. ASSUME NEW i \in Ids, ChangeElsewhere(i)
       PROVE  ui'.pendingSelect = ui.pendingSelect
  BY <1>10 DEF ChangeElsewhere
<1> QED
  BY <1>1, <1>2, <1>3, <1>4, <1>5, <1>7, <1>8, <1>9, <1>10 DEF Next

\* A space just created is selected when the list first shows it, whatever was
\* selected or filtered before (pending_select in render_spaces); no other step
\* forgets it.
THEOREM CreatedIsSelected == Spec => CreatedSpaceIsSelected
<1>1. Inv /\ [Next]_vars =>
        [ui.pendingSelect # None /\ ui'.pendingSelect = None /\ ~ui'.closed
           => ui'.selected = ui.pendingSelect]_vars
  BY AwaitedStep, ManagerAssumption DEF Awaited, None
<1> QED BY <1>1, Invariant, PTL DEF Spec, CreatedSpaceIsSelected

-----------------------------------------------------------------------------
(* No operation that opens encrypted volumes is sent without a passphrase, *)
(* as long as others create and destroy no spaces and no action is carried *)
(* out after the Ui gave up on it.                                         *)

Opening == {"start", "reset-system", "reset-all", "update-image"}

\* What is known of s fits what the daemon has.
Fits(s, e, d) == s \in DOMAIN d.spaces => d.spaces[s].encrypted = e

Agree(f, g) == \A i \in DOMAIN f \cap DOMAIN g : f[i].encrypted = g[i].encrypted

\* The list that will be rendered.
Seen(u) == Told(u, "list") /\ ~u.listAgain

\* The action that the daemon has not ended.
Doing(u, op, s) ==
  /\ Busy(u, "action") /\ Result(u, "action") = "none"
  /\ Asked(u, "action").op = op /\ Asked(u, "action").space = s

\* The operator was asked about s, or it is being destroyed.
Aimed(u, s) ==
  \/ \E q \in u.dialogs : q.type = "confirm" /\ q.space = s
  \/ Doing(u, "destroy", s)

\* A modal dialog keeps the operator from other dialogs and other actions.
Modal(u) ==
  /\ \A p, q \in u.dialogs : p = q
  /\ u.pending # NoAction /\ u.pending.op # "build" => u.dialogs = {}
  /\ u.pending # NoAction => u.dialogs \subseteq {CreateDialog}

\* A list f tells the encryption of the spaces it shows; it shows those an
\* operation is about, and not the one that is being created.
Tells(f, u, d) ==
  /\ Agree(f, d.spaces)
  /\ \A s \in DOMAIN d.spaces : Aimed(u, s) => s \in DOMAIN f
  /\ \A s : Doing(u, "create", s) /\ s \notin DOMAIN d.spaces => s \notin DOMAIN f

Known(u, d) ==
  /\ Agree(u.spaces, d.spaces)
  /\ u.connected \/ DOMAIN u.spaces = {}
  /\ u.connected => Tells(u.spaces, u, d)

\* The list that will be rendered shows what the one on screen shows and is still
\* there, and nothing that is gone and not on screen.
Coming(u, d) ==
  Seen(u) =>
    /\ Tells(Body(u, "list"), u, d)
    /\ DOMAIN u.spaces \cap DOMAIN d.spaces \subseteq DOMAIN Body(u, "list")
    /\ u.connected =>
         DOMAIN Body(u, "list") \subseteq DOMAIN u.spaces \cup DOMAIN d.spaces

ActionFits(c, a, d) ==
  /\ c.op = a.op /\ c.space = a.space /\ c.encrypted = a.encrypted
  /\ c.op \in Opening => Fits(c.space, c.passphrase, d)
  /\ c.op = "create" /\ c.answer.result = "ok" => Fits(c.space, c.encrypted, d)
  /\ a.kind = "passphrase" => c.op \in Opening /\ c.passphrase = TRUE
  /\ a.kind = "create" => c.op = "create"

Sends(u, d) == Busy(u, "action") => ActionFits(Asked(u, "action"), u.pending, d)

Offer(q, d) ==
  /\ q.type = "passphrase" => q.op \in Opening /\ Fits(q.space, TRUE, d)
  /\ q.type = "prompt" => q.encrypted \in BOOLEAN /\ Fits(q.space, q.encrypted, d)
  /\ q.type = "confirm" => q.op \in Confirmed

Offers(u, d) == \A q \in u.dialogs : Offer(q, d)

Careful(u, d) ==
  Modal(u) /\ Known(u, d) /\ Coming(u, d) /\ Sends(u, d) /\ Offers(u, d)

LEMMA SameAims ==
  ASSUME NEW u, NEW v, v.dialogs = u.dialogs, SameSlot(u, v, "action")
  PROVE  /\ \A s : Aimed(v, s) <=> Aimed(u, s)
         /\ \A op, s : Doing(v, op, s) <=> Doing(u, op, s)
<1>1. ASSUME NEW op, NEW s PROVE Doing(v, op, s) <=> Doing(u, op, s)
  BY DEF Doing, SameSlot, Result
<1> QED BY <1>1 DEF Aimed

LEMMA SameTells ==
  ASSUME NEW u, NEW v, NEW d, NEW f, Tells(f, u, d),
         \A s : Aimed(v, s) => Aimed(u, s),
         \A s : Doing(v, "create", s) => Doing(u, "create", s)
  PROVE  Tells(f, v, d)
  BY DEF Tells

LEMMA QuietCareful ==
  ASSUME NEW u, NEW v, NEW d, Careful(u, d), Quiet(u, v)
  PROVE  Careful(v, d)
<1>1. /\ \A s : Aimed(v, s) <=> Aimed(u, s)
      /\ \A op, s : Doing(v, op, s) <=> Doing(u, op, s)
  BY SameAims DEF Quiet
<1>2. Modal(v) /\ Sends(v, d) /\ Offers(v, d)
  BY DEF Careful, Quiet, Modal, Sends, Offers, SameSlot
<1>3. Known(v, d)
  BY <1>1, SameTells DEF Careful, Quiet, Known
<1>4. Seen(v) => Seen(u) /\ Body(v, "list") = Body(u, "list")
  BY KeptAnswer DEF Quiet, Seen
<1>5. Coming(v, d)
  BY <1>1, <1>4, SameTells DEF Careful, Quiet, Coming
<1> QED BY <1>2, <1>3, <1>5 DEF Careful

\* Dialogs change, and what they are beside does not.
SameBeside(u, v) ==
  /\ v.spaces = u.spaces /\ v.connected = u.connected
  /\ v.pending = u.pending /\ v.listAgain = u.listAgain
  /\ SameSlot(u, v, "action") /\ SameSlot(u, v, "list")

LEMMA SameSeen ==
  ASSUME NEW u, NEW v, SameSlot(u, v, "list"), v.listAgain = u.listAgain
  PROVE  (Seen(v) <=> Seen(u)) /\ (Seen(u) => Body(v, "list") = Body(u, "list"))
  BY DEF SameSlot, Seen, Told, Result, Body

\* A dialog closes.
LEMMA FewerCareful ==
  ASSUME NEW u, NEW v, NEW d, Careful(u, d), SameBeside(u, v),
         v.dialogs \subseteq u.dialogs
  PROVE  Careful(v, d)
<1>0. \A op, s : Doing(v, op, s) <=> Doing(u, op, s)
  BY DEF Doing, SameSlot, Result, SameBeside
<1>1. \A s : Aimed(v, s) => Aimed(u, s)
  BY <1>0 DEF Aimed
<1>2. Modal(v) /\ Sends(v, d) /\ Offers(v, d)
  BY DEF Careful, SameBeside, Modal, Sends, Offers, SameSlot
<1>3. Known(v, d)
  BY <1>0, <1>1, SameTells DEF Careful, SameBeside, Known
<1>4. (Seen(v) <=> Seen(u)) /\ (Seen(u) => Body(v, "list") = Body(u, "list"))
  BY SameSeen DEF SameBeside
<1>5. Coming(v, d)
  BY <1>0, <1>1, <1>4, SameTells DEF Careful, SameBeside, Coming
<1> QED BY <1>2, <1>3, <1>5 DEF Careful

\* A list on screen and one that will be rendered show s if it is there.
Shows(u, d, s) ==
  s \in DOMAIN d.spaces =>
    s \in DOMAIN u.spaces /\ (Seen(u) => s \in DOMAIN Body(u, "list"))

\* A dialog opens, and is the only one.
LEMMA OpenCareful ==
  ASSUME NEW u, NEW v, NEW d, Careful(u, d), SameBeside(u, v), NEW q,
         v.dialogs = {q}, Offer(q, d), u.pending = NoAction,
         q.type = "confirm" => Shows(u, d, q.space)
  PROVE  Careful(v, d)
<1>0. \A op, s : Doing(v, op, s) <=> Doing(u, op, s)
  BY DEF Doing, SameSlot, Result, SameBeside
<1>1. \A s : Aimed(v, s) => Aimed(u, s) \/ (q.type = "confirm" /\ q.space = s)
  BY <1>0 DEF Aimed
<1>2. Modal(v) /\ Sends(v, d) /\ Offers(v, d)
  BY DEF Careful, SameBeside, Modal, Sends, Offers, SameSlot
<1>3. ASSUME NEW f, Tells(f, u, d),
             q.type = "confirm" /\ q.space \in DOMAIN d.spaces => q.space \in DOMAIN f
      PROVE  Tells(f, v, d)
  BY <1>0, <1>1, <1>3 DEF Tells
<1>4. Known(v, d)
  BY <1>3 DEF Careful, SameBeside, Known, Shows
<1>5. (Seen(v) <=> Seen(u)) /\ (Seen(u) => Body(v, "list") = Body(u, "list"))
  BY SameSeen DEF SameBeside
<1>6. Coming(v, d)
  BY <1>3, <1>5 DEF Careful, SameBeside, Coming, Shows
<1> QED BY <1>2, <1>4, <1>6 DEF Careful

\* What may be sent.
Sendable(u, d, kind, op, s, p) ==
  /\ op \in Opening => Fits(s, p, d)
  /\ kind = "passphrase" => op \in Opening /\ p = TRUE
  /\ kind = "create" => op = "create"
  /\ op = "destroy" => Shows(u, d, s)
  /\ op = "create" => s \notin DOMAIN u.spaces

\* An action is sent.
LEMMA SentCareful ==
  ASSUME NEW u, NEW v, NEW d, Careful(u, d), u.connected,
         v.spaces = u.spaces, v.connected = u.connected,
         v.listAgain = u.listAgain, SameSlot(u, v, "list"),
         v.dialogs \subseteq u.dialogs, ~Busy(u, "action"),
         NEW kind, NEW op, NEW s, NEW e, NEW p,
         Busy(v, "action"), ActionSent(v, kind, op, s, e, p),
         Sendable(u, d, kind, op, s, p),
         IF op = "build" THEN v.dialogs \subseteq {CreateDialog} ELSE v.dialogs = {}
  PROVE  Careful(v, d)
<1> DEFINE c == Asked(v, "action")
           a == v.pending
<1>1. /\ c.op = op /\ c.space = s /\ c.encrypted = e /\ c.passphrase = p
      /\ c.answer.result = "none"
  BY DEF ActionSent, Call, NoAnswer
<1>2. a.kind = kind /\ a.op = op /\ a.space = s /\ a.encrypted = e
  BY DEF ActionSent
<1> HIDE DEF c, a
<1>3. ActionFits(c, a, d)
  BY <1>1, <1>2 DEF ActionFits, Sendable
<1>4. Modal(v)
  BY <1>2 DEF Modal, Careful, a
<1>5. Sends(v, d) /\ Offers(v, d)
  BY <1>3 DEF Sends, Offers, Careful, c, a
<1>6. /\ \A r : Doing(v, "create", r) => op = "create" /\ r = s
      /\ \A r : Doing(v, "destroy", r) => op = "destroy" /\ r = s
  BY <1>1 DEF Doing, c
<1>7. \A r : Aimed(v, r) => Aimed(u, r) \/ (op = "destroy" /\ r = s)
  BY <1>6 DEF Aimed
<1>8. ASSUME NEW f, Tells(f, u, d),
             op = "destroy" /\ s \in DOMAIN d.spaces => s \in DOMAIN f,
             op = "create" /\ s \notin DOMAIN d.spaces => s \notin DOMAIN f
      PROVE  Tells(f, v, d)
  BY <1>6, <1>7, <1>8 DEF Tells
<1>9. Known(v, d)
  BY <1>8 DEF Careful, Known, Sendable, Shows
<1>10. (Seen(v) <=> Seen(u)) /\ (Seen(u) => Body(v, "list") = Body(u, "list"))
  BY SameSeen
<1>11. Coming(v, d)
  BY <1>8, <1>10 DEF Careful, Coming, Sendable, Shows
<1> QED BY <1>4, <1>5, <1>9, <1>11 DEF Careful

\* send_action, and the dialog it came from closes whether or not it was sent.
LEMMA SubmitCareful ==
  ASSUME NEW u, Typed(u), NEW d, Careful(u, d), ~u.closed,
         NEW kind, NEW op, NEW s, NEW e, NEW p, NEW t,
         t = SendAction(u, kind, op, s, e, p), NEW v, SameBeside(t, v),
         v.dialogs \subseteq u.dialogs,
         u.connected => Sendable(u, d, kind, op, s, p),
         IF op = "build" THEN v.dialogs \subseteq {CreateDialog} ELSE v.dialogs = {}
  PROVE  Careful(v, d)
<1>1. /\ SameView(u, t) /\ SameOthers(u, t, "action")
      /\ \/ t = u
         \/ /\ Sent(u, t, "action") /\ u.connected
            /\ ActionSent(t, kind, op, s, e, p)
  BY SendActionEffect DEF Typed
<1>2. CASE t = u
  BY <1>2, FewerCareful
<1>3. CASE t # u
  <2>1. SameSlot(u, t, "list")
    BY <1>1 DEF SameOthers, Kinds, Reads
  <2>2. SameSlot(u, v, "list") /\ Busy(v, "action") /\ ~Busy(u, "action")
    BY <1>1, <1>3, <2>1 DEF SameBeside, SameSlot, Sent
  <2>3. ActionSent(v, kind, op, s, e, p)
    BY <1>1, <1>3 DEF SameBeside, SameSlot, ActionSent, Sent
  <2>4. /\ v.spaces = u.spaces /\ v.connected = u.connected
        /\ v.listAgain = u.listAgain
    BY <1>1 DEF SameBeside, SameView, SameRest
  <2> QED BY <1>1, <1>3, <2>2, <2>3, <2>4, SentCareful
<1> QED BY <1>2, <1>3

LEMMA DialogsChange ==
  ASSUME NEW u, Typed(u), NEW q
  PROVE  /\ SameBeside(u, Close(u, q)) /\ Close(u, q).dialogs = u.dialogs \ {q}
         /\ SameBeside(u, [u EXCEPT !.dialogs = @ \cup {q}])
         /\ [u EXCEPT !.dialogs = @ \cup {q}].dialogs = u.dialogs \cup {q}
<1>1. ASSUME NEW D, NEW f, NEW v, v = [u EXCEPT !.dialogs = D, !.form = f]
      PROVE  SameBeside(u, v) /\ v.dialogs = D
  <2>1. /\ v.spaces = u.spaces /\ v.connected = u.connected /\ v.pending = u.pending
        /\ v.listAgain = u.listAgain /\ v.calls = u.calls /\ v.dialogs = D
    BY <1>1 DEF Typed, IsUi
  <2> QED BY <2>1 DEF SameBeside, SameSlot, Busy, Asked
<1>2. ASSUME NEW D, NEW v, v = [u EXCEPT !.dialogs = D]
      PROVE  SameBeside(u, v) /\ v.dialogs = D
  <2>1. /\ v.spaces = u.spaces /\ v.connected = u.connected /\ v.pending = u.pending
        /\ v.listAgain = u.listAgain /\ v.calls = u.calls /\ v.dialogs = D
    BY <1>2 DEF Typed, IsUi
  <2> QED BY <2>1 DEF SameBeside, SameSlot, Busy, Asked
<1>3. SameBeside(u, Close(u, q)) /\ Close(u, q).dialogs = u.dialogs \ {q}
  <2> DEFINE f == IF q = CreateDialog THEN "none" ELSE u.form
  <2>1. Close(u, q) = [u EXCEPT !.dialogs = u.dialogs \ {q}, !.form = f]
    BY DEF Close
  <2> HIDE DEF f
  <2> QED BY <1>1, <2>1
<1> QED BY <1>2, <1>3

\* The end of a click: nothing else is open then.
LEMMA AskCareful ==
  ASSUME NEW u, Typed(u), NEW d, Careful(u, d), ~u.closed, u.pending = NoAction,
         NEW op, op # "build", NEW s, NEW e, NEW t, t = AskOrSend(u, op, s, e),
         NEW v, SameBeside(t, v), v.dialogs = t.dialogs \ u.dialogs,
         \A q \in u.dialogs : q.type # "passphrase",
         e => op \in Opening /\ Fits(s, TRUE, d),
         ~e /\ u.connected => Sendable(u, d, "other", op, s, FALSE)
  PROVE  Careful(v, d)
<1>1. CASE e
  <2>1. PICK yes \in {TRUE} : TRUE
    OBVIOUS
  <2> DEFINE q == Dialog("passphrase", op, s, yes)
  <2>2. t = [u EXCEPT !.dialogs = @ \cup {q}]
    BY <1>1, <2>1 DEF AskOrSend
  <2>3. q.type = "passphrase" /\ q.op = op /\ q.space = s
    BY DEF Dialog
  <2> HIDE DEF q
  <2>4. SameBeside(u, t) /\ t.dialogs = u.dialogs \cup {q}
    BY <2>2, DialogsChange
  <2>5. SameBeside(u, v)
    BY <2>4 DEF SameBeside, SameSlot
  <2>6. v.dialogs = {q}
    BY <2>3, <2>4
  <2>7. Offer(q, d)
    BY <1>1, <2>3 DEF Offer
  <2> QED BY <2>3, <2>5, <2>6, <2>7, OpenCareful
<1>2. CASE ~e
  <2>1. t = SendAction(u, "other", op, s, FALSE, FALSE)
    BY <1>2 DEF AskOrSend
  <2>2. v.dialogs = {}
    <3>1. ASSUME NEW no, NEW r, r = SendAction(u, "other", op, s, no, no)
          PROVE  r.dialogs = u.dialogs
      BY <3>1, SendActionEffect DEF Typed, SameView, SameRest
    <3>2. t.dialogs = u.dialogs
      BY <2>1, <3>1
    <3> QED BY <3>2
  <2>3. u.connected => Sendable(u, d, "other", op, s, FALSE)
    BY <1>2
  <2>4. ASSUME NEW no, t = SendAction(u, "other", op, s, no, no),
               u.connected => Sendable(u, d, "other", op, s, no)
        PROVE  Careful(v, d)
    BY <2>2, <2>4, SubmitCareful
  <2> QED BY <2>1, <2>3, <2>4
<1> QED BY <1>1, <1>2

LEMMA QuietSteps ==
  ASSUME NEW u, Typed(u)
  PROVE  /\ \A k \in Reads : Quiet(u, Refresh(u, k))
         /\ \A s : Quiet(u, RefreshDetail(u, s))
         /\ \A s \in Ids \cup {None} : Quiet(u, SelectSpace(u, s))
         /\ Quiet(u, FilterSpaces(u))
<1>0. IsUi(u) /\ Owned(u) /\ "list" \in Kinds /\ "action" \in Kinds /\ "action" \notin Reads
  BY DEF Typed, Kinds, Reads
<1>1. ASSUME NEW k \in Reads PROVE Quiet(u, Refresh(u, k))
  <2> DEFINE v == Refresh(u, k)
  <2>1. v = Refresh(u, k)
    OBVIOUS
  <2> HIDE DEF v
  <2>2. /\ SameView(u, v) /\ SameOthers(u, v, k) /\ v.pending = u.pending
        /\ v = u \/ Sent(u, v, k)
    BY <1>0, <2>1, RefreshEffect
  <2>3. SameSlot(u, v, "action") /\ Kept(u, v, "list")
    BY <1>0, <2>2, SentOrSame DEF SameOthers
  <2> QED BY <2>1, <2>2, <2>3 DEF Quiet, SameView, SameRest
<1>2. ASSUME NEW s PROVE Quiet(u, RefreshDetail(u, s))
  <2> DEFINE v == RefreshDetail(u, s)
  <2>1. v = RefreshDetail(u, s)
    OBVIOUS
  <2> HIDE DEF v
  <2>2. SameView(u, v) /\ SameOthers(u, v, "describe") /\ v.pending = u.pending
    BY <1>0, <2>1, RefreshDetailEffect
  <2>3. SameSlot(u, v, "action") /\ Kept(u, v, "list")
    BY <1>0, <2>2 DEF SameOthers, Kept
  <2> QED BY <2>1, <2>2, <2>3 DEF Quiet, SameView, SameRest
<1>3. ASSUME NEW s, NEW v, SelectRel(u, v, s) PROVE Quiet(u, v)
  <2>1. SameSlot(u, v, "action") /\ Kept(u, v, "list")
    BY <1>0, <1>3 DEF SelectRel, SameOthers, Kept
  <2> QED BY <1>3, <2>1 DEF Quiet, SelectRel, SameRest
<1>4. ASSUME NEW s \in Ids \cup {None} PROVE Quiet(u, SelectSpace(u, s))
  BY <1>3, SelectEffect
<1>5. Quiet(u, FilterSpaces(u))
  BY <1>3, FilterEffect
<1> QED BY <1>1, <1>2, <1>4, <1>5

LEMMA PollCareful ==
  ASSUME Good(ui, daemon, unseen), Careful(ui, daemon), PollRefresh
  PROVE  Careful(ui', daemon)
<1> DEFINE v == Refresh(ui, "list")
           w == CASE v.page = "images" -> Refresh(v, "profiles")
                  [] v.page = "spaces" /\ v.selected # None ->
                       RefreshDetail(v, v.selected)
                  [] OTHER -> v
<1>0. "list" \in Reads /\ "profiles" \in Reads
  BY DEF Reads
<1>1. ui' = IF CreateDialog \in w.dialogs THEN Refresh(w, "profiles") ELSE w
  BY DEF PollRefresh
<1>2. Typed(v) /\ Careful(v, daemon)
  BY <1>0, RefreshTyped, QuietSteps, QuietCareful DEF Good
<1> HIDE DEF v
<1>3. Typed(w) /\ Careful(w, daemon)
  <2>1. CASE v.page = "images"
    BY <1>0, <1>2, <2>1, RefreshTyped, QuietSteps, QuietCareful
  <2>2. CASE v.page = "spaces" /\ v.selected # None
    <3>1. v.selected \in Ids
      BY <1>2, <2>2, SelectedIsId
    <3>2. /\ Typed(RefreshDetail(v, v.selected))
          /\ Careful(RefreshDetail(v, v.selected), daemon)
      BY <1>2, <3>1, RefreshDetailTyped, QuietSteps, QuietCareful
    <3> QED BY <2>2, <3>2
  <2>3. CASE v.page # "images" /\ ~(v.page = "spaces" /\ v.selected # None)
    BY <1>2, <2>3
  <2> QED BY <2>1, <2>2, <2>3
<1> HIDE DEF w
<1> QED BY <1>0, <1>1, <1>3, QuietSteps, QuietCareful

\* What the list says of a space that is there.
LEMMA ListSays ==
  ASSUME NEW u, Typed(u), NEW d, DaemonOK(d), Careful(u, d), NEW s
  PROVE  /\ s \in DOMAIN u.spaces /\ u.spaces[s].encrypted => Fits(s, TRUE, d)
         /\ s \in DOMAIN u.spaces /\ ~u.spaces[s].encrypted => Fits(s, FALSE, d)
         /\ s \in DOMAIN u.spaces => Shows(u, d, s)
<1>1. ASSUME s \in DOMAIN u.spaces PROVE u.spaces[s].encrypted \in BOOLEAN
  <2>1. u.spaces[s] \in Row
    BY <1>1 DEF Typed, ViewOK, Rows
  <2>2. u.spaces[s].encrypted \in Encryption
    BY <2>1 DEF Row
  <2> QED BY <2>2, ManagerAssumption
<1>2. ASSUME s \in DOMAIN u.spaces, s \in DOMAIN d.spaces
      PROVE  d.spaces[s].encrypted = u.spaces[s].encrypted
  BY <1>2 DEF Careful, Known, Agree
<1>3. s \in DOMAIN u.spaces => Shows(u, d, s)
  BY DEF Shows, Careful, Coming
<1> QED BY <1>1, <1>2, <1>3 DEF Fits

LEMMA SameIsBeside == ASSUME NEW u PROVE SameBeside(u, u)
  BY DEF SameBeside, SameSlot

\* start_button, stop_button, open_window_button.
LEMMA ClickOperationCareful ==
  ASSUME Inv, Careful(ui, daemon), NEW op \in Operations \cap Immediate,
         ClickOperation(op)
  PROVE  Careful(ui', daemon)
<1>0. Typed(ui) /\ DaemonOK(daemon)
  BY DEF Inv, Good
<1> DEFINE s == ui.selected
           e == NeedsPassphrase(op, ui, s)
<1>1. /\ ui' = AskOrSend(ui, op, s, e) /\ ui.dialogs = {} /\ ~ui.closed
      /\ ui.pending = NoAction /\ s \in DOMAIN ui.spaces
  BY DEF ClickOperation, MainWindow, Shown, Sensitive, Idle, ActionEnabled
<1>2. op \in {"start", "stop", "open-window"}
  BY DEF Immediate
<1>3. /\ e => op \in Opening /\ ui.spaces[s].encrypted
      /\ ~e /\ op \in Opening => ~ui.spaces[s].encrypted
  BY <1>1, <1>2 DEF NeedsPassphrase, Opening
<1> HIDE DEF e, s
<1>4. /\ ui.spaces[s].encrypted => Fits(s, TRUE, daemon)
      /\ ~ui.spaces[s].encrypted => Fits(s, FALSE, daemon)
  BY <1>0, <1>1, ListSays
<1>5. ~e => Sendable(ui, daemon, "other", op, s, FALSE)
  BY <1>2, <1>3, <1>4 DEF Sendable
<1>6. ASSUME NEW v, v = AskOrSend(ui, op, s, e) PROVE Careful(v, daemon)
  <2>1. SameBeside(v, v) /\ v.dialogs = v.dialogs \ ui.dialogs
    BY <1>1, SameIsBeside
  <2>2. op # "build"
    BY <1>2
  <2>3. \A q \in ui.dialogs : q.type # "passphrase"
    BY <1>1
  <2>4. e => op \in Opening /\ Fits(s, TRUE, daemon)
    BY <1>3, <1>4
  <2>5. ~e /\ ui.connected => Sendable(ui, daemon, "other", op, s, FALSE)
    BY <1>5
  <2> QED BY <1>0, <1>1, <1>6, <2>1, <2>2, <2>3, <2>4, <2>5, AskCareful
<1> QED BY <1>1, <1>6

LEMMA ClickConfirmedCareful ==
  ASSUME Inv, Careful(ui, daemon), NEW op \in Operations \cap Confirmed,
         ClickConfirmed(op)
  PROVE  Careful(ui', daemon)
<1>0. Typed(ui) /\ DaemonOK(daemon)
  BY DEF Inv, Good
<1> DEFINE s == ui.selected
           q == Dialog("confirm", op, s, FALSE)
<1>1. /\ ui' = [ui EXCEPT !.dialogs = @ \cup {q}] /\ ui.dialogs = {}
      /\ ui.pending = NoAction /\ s \in DOMAIN ui.spaces
  BY DEF ClickConfirmed, MainWindow, Shown, Sensitive, Idle, ActionEnabled
<1>2. q.type = "confirm" /\ q.op = op /\ q.space = s
  BY DEF Dialog
<1> HIDE DEF q, s
<1>3. SameBeside(ui, ui') /\ ui'.dialogs = {q}
  BY <1>0, <1>1, DialogsChange
<1>4. Offer(q, daemon) /\ Shows(ui, daemon, q.space)
  BY <1>0, <1>1, <1>2, ListSays DEF Offer
<1>5. ASSUME NEW v, SameBeside(ui, v), v.dialogs = {q} PROVE Careful(v, daemon)
  BY <1>1, <1>4, <1>5, OpenCareful
<1> QED BY <1>3, <1>5

\* A dialog that is not the form is the only one, and no action is pending.
LEMMA OnlyDialog ==
  ASSUME Inv, Careful(ui, daemon), NEW q \in ui.dialogs, q.type # "create"
  PROVE  ui.dialogs = {q} /\ ui.pending = NoAction /\ Offer(q, daemon)
<1>1. CreateDialog.type = "create"
  BY DEF CreateDialog, Dialog
<1> QED BY <1>1 DEF Careful, Modal, Offers

LEMMA ConfirmCareful ==
  ASSUME Inv, Careful(ui, daemon), NEW q \in ui.dialogs, Confirm(q)
  PROVE  Careful(ui', daemon)
<1>0. Typed(ui) /\ DaemonOK(daemon)
  BY DEF Inv, Good
<1> DEFINE u == Close(ui, q)
           s == q.space
           op == q.op
           e == NeedsPassphrase(op, ui, s)
<1>1. /\ ui' = AskOrSend(u, op, s, e) /\ ~ui.closed /\ q.type = "confirm"
  BY DEF Confirm, DialogShown, Shown
<1>2. /\ ui.dialogs = {q} /\ ui.pending = NoAction /\ op \in Confirmed
  BY <1>1, OnlyDialog DEF Offer
<1>3. Typed(u)
  BY CloseGood DEF Inv, Good
<1>d. SameBeside(ui, u) /\ u.dialogs = ui.dialogs \ {q}
  BY <1>0, DialogsChange
<1>4. SameBeside(ui, u) /\ u.dialogs = {}
  BY <1>2, <1>d
<1>c. u.closed = ui.closed
  <2> DEFINE f == IF q = CreateDialog THEN "none" ELSE ui.form
  <2>1. u = [ui EXCEPT !.dialogs = ui.dialogs \ {q}, !.form = f]
    BY DEF Close
  <2> HIDE DEF u, f
  <2> QED BY <1>0, <2>1 DEF Typed, IsUi
<1>5. /\ e => op \in Opening /\ s \in DOMAIN ui.spaces /\ ui.spaces[s].encrypted
      /\ ~e /\ op \in Opening /\ s \in DOMAIN ui.spaces => ~ui.spaces[s].encrypted
  BY DEF NeedsPassphrase, Opening
<1>6. Careful(u, daemon)
  BY <1>4, FewerCareful
<1>7. op # "build" /\ op # "create"
  BY <1>2 DEF Confirmed
<1>8. ui.connected => (s \in DOMAIN daemon.spaces => s \in DOMAIN ui.spaces)
  <2>1. Aimed(ui, s)
    BY <1>1 DEF Aimed
  <2> QED BY <2>1 DEF Careful, Known, Tells
<1> HIDE DEF e, u, s, op
<1>9. /\ s \in DOMAIN ui.spaces /\ ui.spaces[s].encrypted => Fits(s, TRUE, daemon)
      /\ s \in DOMAIN ui.spaces /\ ~ui.spaces[s].encrypted => Fits(s, FALSE, daemon)
      /\ s \in DOMAIN ui.spaces => Shows(ui, daemon, s)
  BY <1>0, ListSays
<1>10. s \notin DOMAIN daemon.spaces =>
         Fits(s, FALSE, daemon) /\ Shows(ui, daemon, s)
  BY DEF Fits, Shows
<1>11. Shows(ui, daemon, s) => Shows(u, daemon, s)
  BY <1>4, SameSeen DEF SameBeside, Shows
<1>12. ~e /\ u.connected => Sendable(u, daemon, "other", op, s, FALSE)
  <2> SUFFICES ASSUME ~e, u.connected PROVE Sendable(u, daemon, "other", op, s, FALSE)
    OBVIOUS
  <2>1. ui.connected
    BY <1>4 DEF SameBeside
  <2>2. Shows(u, daemon, s) /\ (op \in Opening => Fits(s, FALSE, daemon))
    BY <1>5, <1>8, <1>9, <1>10, <1>11, <2>1
  <2> QED BY <1>7, <2>2 DEF Sendable
<1>13. ASSUME NEW v, v = AskOrSend(u, op, s, e) PROVE Careful(v, daemon)
  <2>1. SameBeside(v, v) /\ v.dialogs = v.dialogs \ u.dialogs
    BY <1>4, SameIsBeside
  <2>2. u.pending = NoAction /\ ~u.closed
    BY <1>1, <1>2, <1>4, <1>c DEF SameBeside
  <2>3. \A r \in u.dialogs : r.type # "passphrase"
    BY <1>4
  <2>4. e => op \in Opening /\ Fits(s, TRUE, daemon)
    BY <1>5, <1>9
  <2> QED BY <1>3, <1>6, <1>7, <1>12, <1>13, <2>1, <2>2, <2>3, <2>4, AskCareful
<1> QED BY <1>1, <1>13

LEMMA SubmitPassphraseCareful ==
  ASSUME Inv, Careful(ui, daemon), NEW q \in ui.dialogs, SubmitPassphrase(q)
  PROVE  Careful(ui', daemon)
<1>0. Typed(ui)
  BY DEF Inv, Good
<1>1. ui' = Close(SendAction(ui, "passphrase", q.op, q.space, TRUE, TRUE), q)
      /\ ~ui.closed /\ q.type = "passphrase"
  BY DEF SubmitPassphrase, DialogShown, Shown
<1>2. /\ ui.dialogs = {q} /\ ui.pending = NoAction
      /\ q.op \in Opening /\ Fits(q.space, TRUE, daemon)
  BY <1>1, OnlyDialog DEF Offer
<1>3. q.op \in Actions \ {"create", "build", "destroy"} /\ q.space \in Ids
  <2>1. DialogOK(q)
    BY <1>0 DEF Typed, ViewOK
  <2> QED BY <1>1, <1>2, <2>1 DEF DialogOK, Opening
<1>4. PICK yes \in {TRUE} : TRUE
  OBVIOUS
<1> DEFINE t == SendAction(ui, "passphrase", q.op, q.space, yes, yes)
<1>5. ui' = Close(t, q)
  BY <1>1, <1>4
<1>6. t = SendAction(ui, "passphrase", q.op, q.space, yes, yes)
  OBVIOUS
<1> HIDE DEF t
<1>a. Typed(t)
  BY <1>0, <1>3, <1>6, SendActionTyped DEF Creates
<1>b. ASSUME NEW e, NEW r, r = SendAction(ui, "passphrase", q.op, q.space, e, e)
      PROVE  r.dialogs = ui.dialogs
  BY <1>0, <1>b, SendActionEffect DEF Typed, SameView, SameRest
<1>7. Typed(t) /\ t.dialogs = ui.dialogs
  BY <1>6, <1>a, <1>b
<1>8. SameBeside(t, ui') /\ ui'.dialogs = t.dialogs \ {q}
  BY <1>5, <1>7, DialogsChange
<1>9. Sendable(ui, daemon, "passphrase", q.op, q.space, yes)
  BY <1>2, <1>3, <1>4 DEF Sendable
<1>10. ui'.dialogs = {}
  BY <1>2, <1>7, <1>8
<1>11. ASSUME NEW v, SameBeside(t, v), v.dialogs = {} PROVE Careful(v, daemon)
  BY <1>0, <1>1, <1>3, <1>6, <1>9, <1>11, SubmitCareful
<1> QED BY <1>8, <1>10, <1>11

LEMMA StartNowCareful ==
  ASSUME Inv, Careful(ui, daemon), NEW q \in ui.dialogs, StartNow(q)
  PROVE  Careful(ui', daemon)
<1>0. Typed(ui) /\ Good(ui, daemon, unseen)
  BY DEF Inv, Good
<1> DEFINE t == AskOrSend(ui, "start", q.space, q.encrypted)
<1>1. ui' = Close(t, q) /\ ~ui.closed /\ q.type = "prompt"
  BY DEF StartNow, DialogShown, Shown
<1>2. /\ ui.dialogs = {q} /\ ui.pending = NoAction
      /\ q.encrypted \in BOOLEAN /\ Fits(q.space, q.encrypted, daemon)
  BY <1>1, OnlyDialog DEF Offer
<1>3. q.space \in Ids /\ "start" \in Actions \ {"create"}
  BY <1>0, <1>1 DEF Typed, ViewOK, DialogOK, Actions, Immediate
<1>4. Typed(t)
  BY <1>0, <1>3, AskOrSendGood DEF Good
<1>5. t = AskOrSend(ui, "start", q.space, q.encrypted)
  OBVIOUS
<1> HIDE DEF t
<1>6. SameBeside(t, ui') /\ ui'.dialogs = t.dialogs \ {q}
  BY <1>1, <1>4, DialogsChange
<1>7. q.encrypted => Fits(q.space, TRUE, daemon)
  BY <1>2 DEF Fits
<1>8. ~q.encrypted => Fits(q.space, FALSE, daemon)
  BY <1>2 DEF Fits
<1>9. ~q.encrypted => Sendable(ui, daemon, "other", "start", q.space, FALSE)
  BY <1>8 DEF Sendable
<1>10. "start" \in Opening /\ "start" # "build"
  BY DEF Opening
<1>11. ASSUME NEW v, SameBeside(t, v), v.dialogs = t.dialogs \ ui.dialogs
       PROVE  Careful(v, daemon)
  <2>1. \A r \in ui.dialogs : r.type # "passphrase"
    BY <1>1, <1>2
  <2> DEFINE op == "start"
             s == q.space
             e == q.encrypted
  <2>2. /\ t = AskOrSend(ui, op, s, e) /\ op # "build"
        /\ e => op \in Opening /\ Fits(s, TRUE, daemon)
        /\ ~e /\ ui.connected => Sendable(ui, daemon, "other", op, s, FALSE)
    BY <1>5, <1>7, <1>9, <1>10
  <2> HIDE DEF op, s, e
  <2> QED BY <1>0, <1>1, <1>2, <1>11, <2>1, <2>2, AskCareful
<1>12. ui'.dialogs = t.dialogs \ ui.dialogs
  BY <1>2, <1>6
<1> QED BY <1>6, <1>11, <1>12

\* try_submit_create: the id is not on screen.
LEMMA SubmitCreateCareful ==
  ASSUME Inv, Careful(ui, daemon), NEW s \in Ids, NEW e \in Encryption,
         SubmitCreate(s, e)
  PROVE  Careful(ui', daemon)
<1>0. Typed(ui)
  BY DEF Inv, Good
<1> DEFINE t == SendAction(ui, "create", "create", s, e, e)
<1>1. /\ ui' = Close(t, CreateDialog) /\ ~ui.closed
      /\ CreateDialog \in ui.dialogs /\ s \notin DOMAIN ui.spaces
  BY DEF SubmitCreate, DialogShown, Shown
<1>2. t = SendAction(ui, "create", "create", s, e, e)
  OBVIOUS
<1> HIDE DEF t
<1>3. ui.dialogs = {CreateDialog}
  BY <1>1 DEF Careful, Modal
<1>4. Typed(t)
  BY <1>0, <1>2, SendActionTyped DEF Creates, Actions
<1>5. t.dialogs = ui.dialogs
  BY <1>0, <1>2, SendActionEffect DEF Typed, SameView, SameRest
<1>6. SameBeside(t, ui') /\ ui'.dialogs = t.dialogs \ {CreateDialog}
  BY <1>1, <1>4, DialogsChange
<1>7. Sendable(ui, daemon, "create", "create", s, e)
  BY <1>1 DEF Sendable, Opening
<1>8. ui'.dialogs = {}
  BY <1>3, <1>5, <1>6
<1>9. ASSUME NEW v, SameBeside(t, v), v.dialogs = {} PROVE Careful(v, daemon)
  BY <1>0, <1>1, <1>2, <1>7, <1>9, SubmitCareful
<1> QED BY <1>6, <1>8, <1>9

LEMMA BuildCareful ==
  ASSUME Inv, Careful(ui, daemon), BuildInForm \/ BuildOnPage
  PROVE  Careful(ui', daemon)
<1>0. Typed(ui)
  BY DEF Inv, Good
<1>1. /\ ui' = SendAction(ui, "other", "build", None, FALSE, FALSE) /\ ~ui.closed
      /\ ui.dialogs = {} \/ CreateDialog \in ui.dialogs
  BY DEF BuildInForm, BuildOnPage, DialogShown, MainWindow, Shown
<1>2. ui.dialogs \subseteq {CreateDialog}
  BY <1>1 DEF Careful, Modal
<1>3. ASSUME NEW no, NEW v, v = SendAction(ui, "other", "build", None, no, no)
      PROVE  Careful(v, daemon)
  <2>1. SameBeside(v, v) /\ v.dialogs = ui.dialogs
    BY <1>0, <1>3, SameIsBeside, SendActionEffect DEF Typed, SameView, SameRest
  <2>2. Sendable(ui, daemon, "other", "build", None, no)
    BY DEF Sendable, Opening
  <2>3. v.dialogs \subseteq {CreateDialog} /\ v.dialogs \subseteq ui.dialogs
    BY <1>2, <2>1
  <2> QED BY <1>0, <1>1, <1>3, <2>1, <2>2, <2>3, SubmitCareful
<1> QED BY <1>1, <1>3

LEMMA OpenFormCareful ==
  ASSUME Inv, Careful(ui, daemon), OpenCreateDialog
  PROVE  Careful(ui', daemon)
<1>0. Typed(ui) /\ "profiles" \in Reads
  BY DEF Inv, Good, Reads
<1> DEFINE v == [ui EXCEPT !.dialogs = @ \cup {CreateDialog}, !.form = "none"]
           q == CreateDialog
<1>1. /\ ui' = Refresh(v, "profiles") /\ ui.dialogs = {} /\ ui.pending = NoAction
  BY DEF OpenCreateDialog, MainWindow, Idle
<1>2. Typed(v)
  BY OpenFormGood DEF Inv, Good
<1>3. v = [ui EXCEPT !.dialogs = @ \cup {q}, !.form = "none"] /\ q.type = "create"
  BY DEF CreateDialog, Dialog
<1> HIDE DEF v, q
<1>4. /\ v.spaces = ui.spaces /\ v.connected = ui.connected
      /\ v.pending = ui.pending /\ v.listAgain = ui.listAgain
      /\ v.calls = ui.calls /\ v.dialogs = {q}
  BY <1>0, <1>1, <1>3 DEF Typed, IsUi
<1>5. SameBeside(ui, v) /\ Offer(q, daemon)
  BY <1>3, <1>4 DEF SameBeside, SameSlot, Busy, Asked, Offer
<1>6. Careful(v, daemon)
  BY <1>1, <1>3, <1>4, <1>5, OpenCareful
<1>7. Quiet(v, Refresh(v, "profiles"))
  BY <1>0, <1>2, QuietSteps
<1> QED BY <1>1, <1>6, <1>7, QuietCareful

LEMMA OperatorCareful ==
  ASSUME Inv, Careful(ui, daemon), Operator, ~CloseWindow
  PROVE  Careful(ui', daemon)
<1>t. Typed(ui) /\ "profiles" \in Reads /\ Good(ui, daemon, unseen)
  BY DEF Inv, Good, Reads
<1>1. ASSUME NEW s \in Ids \cup {None}, ClickRow(s) PROVE Careful(ui', daemon)
  BY <1>1, <1>t, QuietSteps, QuietCareful DEF ClickRow
<1>2. ASSUME NEW page \in Pages, Navigate(page) PROVE Careful(ui', daemon)
  <2> DEFINE v == [ui EXCEPT !.page = page]
  <2>1. ui' = IF page = "images" THEN Refresh(v, "profiles") ELSE v
    BY <1>2 DEF Navigate
  <2>2. Typed(v)
    BY <1>t, PageGood, ManagerAssumption DEF Good
  <2>3. /\ v.spaces = ui.spaces /\ v.connected = ui.connected
        /\ v.pending = ui.pending /\ v.listAgain = ui.listAgain
        /\ v.calls = ui.calls /\ v.dialogs = ui.dialogs
    BY <1>t DEF Typed, IsUi
  <2> HIDE DEF v
  <2>4. Careful(v, daemon)
    BY <2>3, FewerCareful DEF SameBeside, SameSlot, Busy, Asked
  <2> QED BY <1>t, <2>1, <2>2, <2>4, QuietSteps, QuietCareful
<1>3. ASSUME NEW search \in Searches, NEW r \in BOOLEAN, Filter(search, r)
      PROVE  Careful(ui', daemon)
  <2> DEFINE v == [ui EXCEPT !.search = search, !.runningOnly = r]
  <2>1. ui' = FilterSpaces(v)
    BY <1>3 DEF Filter
  <2>2. Typed(v)
    BY <1>t, SearchGood, ManagerAssumption DEF Good
  <2>3. /\ v.spaces = ui.spaces /\ v.connected = ui.connected
        /\ v.pending = ui.pending /\ v.listAgain = ui.listAgain
        /\ v.calls = ui.calls /\ v.dialogs = ui.dialogs
    BY <1>t DEF Typed, IsUi
  <2> HIDE DEF v
  <2>4. Careful(v, daemon)
    BY <2>3, FewerCareful DEF SameBeside, SameSlot, Busy, Asked
  <2> QED BY <2>1, <2>2, <2>4, QuietSteps, QuietCareful
<1>4. ASSUME NEW q \in ui.dialogs, Cancel(q) PROVE Careful(ui', daemon)
  <2>1. SameBeside(ui, ui') /\ ui'.dialogs = ui.dialogs \ {q}
    BY <1>4, <1>t, DialogsChange DEF Cancel
  <2> QED BY <2>1, FewerCareful
<1> QED
  BY <1>1, <1>2, <1>3, <1>4, ClickOperationCareful, ClickConfirmedCareful,
     ConfirmCareful, SubmitPassphraseCareful, StartNowCareful, OpenFormCareful,
     SubmitCreateCareful, BuildCareful
  DEF Operator

\* The list on screen is replaced by the one that came.
LEMMA ListTakenCareful ==
  ASSUME NEW u, NEW v, NEW d, Careful(u, d), Busy(u, "list"),
         ListTaken(u, v, Asked(u, "list").answer)
  PROVE  Careful(v, d)
<1>1. /\ \A s : Aimed(v, s) <=> Aimed(u, s)
      /\ \A op, s : Doing(v, op, s) <=> Doing(u, op, s)
  BY SameAims DEF ListTaken
<1>2. Modal(v) /\ Sends(v, d) /\ Offers(v, d)
  BY DEF Careful, ListTaken, Modal, Sends, Offers, SameSlot
<1>3. Coming(v, d)
  BY DEF ListTaken, Coming, Seen
<1>4. ASSUME NEW f, Tells(f, u, d) PROVE Tells(f, v, d)
  BY <1>1, <1>4, SameTells
<1>5. CASE v.spaces = u.spaces /\ v.connected = u.connected
  BY <1>2, <1>3, <1>4, <1>5 DEF Careful, Known
<1>6. CASE v.spaces = NoRows /\ ~v.connected
  BY <1>2, <1>3, <1>6, NoRowsIsTyped DEF Careful, Known, Agree
<1>7. CASE /\ ~u.listAgain /\ Asked(u, "list").answer.result = "ok"
           /\ v.spaces = Asked(u, "list").answer.body /\ v.connected
  <2>1. Seen(u) /\ v.spaces = Body(u, "list")
    BY <1>7 DEF Seen, Told, Result, Body
  <2>2. Tells(v.spaces, v, d)
    BY <1>4, <2>1 DEF Careful, Coming
  <2> QED BY <1>2, <1>3, <1>7, <2>2 DEF Careful, Known, Tells
<1> QED BY <1>5, <1>6, <1>7 DEF ListTaken

\* The answer of an action opens at most one dialog, and no other is open.
LEMMA ActionTakenCareful ==
  ASSUME NEW u, NEW v, NEW d, Typed(u), Careful(u, d), Busy(u, "action"), ~u.closed,
         ActionTaken(u, v, Asked(u, "action").answer)
  PROVE  Careful(v, d)
<1> DEFINE c == Asked(u, "action")
           a == u.pending
<1>1. ActionFits(c, a, d)
  BY DEF Careful, Sends
<1>2. a # NoAction
  <2>1. a.id = Slot("action") /\ NoAction.id = NoId
    BY DEF Typed, Owned, NoAction
  <2> QED BY <2>1, SlotsDiffer DEF Kinds
<1>3. CallOK("action", c)
  BY DEF Typed, CallsOK, Kinds
<1>a. c = Asked(u, "action") /\ a = u.pending
  OBVIOUS
<1> HIDE DEF c, a
<1>4. a.kind \in {"create", "passphrase"} => u.dialogs = {}
  <2>1. a.kind \in {"create", "passphrase"} => a.op # "build"
    BY <1>1 DEF ActionFits, Opening
  <2> QED BY <1>2, <1>a, <2>1 DEF Careful, Modal
<1>5. Modal(v)
  <2>1. ASSUME NEW p \in v.dialogs, NEW q \in v.dialogs PROVE p = q
    BY <1>4, <1>a, <2>1 DEF ActionTaken, Careful, Modal
  <2> QED BY <2>1 DEF ActionTaken, Modal
<1>6. Sends(v, d)
  BY DEF ActionTaken, Sends
<1>7. ASSUME NEW q \in v.dialogs \ u.dialogs PROVE Offer(q, d)
  <2>1. CASE /\ c.answer.result = "ok" /\ a.kind = "create" /\ PromptFor(q, a)
    <3>1. Fits(a.space, a.encrypted, d) /\ a.encrypted \in Encryption
      BY <1>1, <1>3, <2>1 DEF ActionFits, CallOK, Creates
    <3> QED BY <2>1, <3>1, ManagerAssumption DEF PromptFor, Offer
  <2>2. CASE a.kind = "passphrase" /\ PassphraseFor(q, a)
    <3>1. a.op \in Opening /\ Fits(a.space, c.passphrase, d) /\ c.passphrase = TRUE
      BY <1>1, <2>2 DEF ActionFits
    <3>2. Fits(a.space, TRUE, d)
      BY <3>1 DEF Fits
    <3> QED BY <2>2, <3>1, <3>2 DEF PassphraseFor, Offer
  <2> QED BY <1>a, <2>1, <2>2 DEF ActionTaken
<1>8. Offers(v, d)
  BY <1>7 DEF Careful, Offers
<1>9. \A op, s : ~Doing(v, op, s)
  BY DEF ActionTaken, Doing
<1>10. \A q \in v.dialogs \ u.dialogs : q.type # "confirm"
  BY DEF ActionTaken, PromptFor, PassphraseFor
<1>11. \A s : Aimed(v, s) => Aimed(u, s)
  BY <1>9, <1>10 DEF Aimed
<1>12. ASSUME NEW f, Tells(f, u, d) PROVE Tells(f, v, d)
  BY <1>9, <1>11, <1>12, SameTells
<1>13. Known(v, d)
  BY <1>12 DEF ActionTaken, Careful, Known
<1>14. Coming(v, d)
  <2>1. CASE c.answer.result = "ok"
    <3>1. ~Seen(v)
      BY <1>a, <2>1 DEF ActionTaken, Due, Seen
    <3> QED BY <3>1 DEF Coming
  <2>2. CASE c.answer.result # "ok"
    <3>1. SameSlot(u, v, "list") /\ v.listAgain = u.listAgain
      BY <1>a, <2>2 DEF ActionTaken
    <3>2. (Seen(v) <=> Seen(u)) /\ (Seen(u) => Body(v, "list") = Body(u, "list"))
      BY <3>1, SameSeen
    <3> QED BY <1>12, <3>2 DEF ActionTaken, Careful, Coming
  <2> QED BY <2>1, <2>2
<1> QED BY <1>5, <1>6, <1>8, <1>13, <1>14 DEF Careful

LEMMA DoneCareful ==
  ASSUME NEW u, NEW d, NEW x, Good(u, d, x), NEW id \in DOMAIN u.calls, ~u.closed,
         Careful(u, d)
  PROVE  Careful(HandleDone(u, id), d)
<1> DEFINE v == HandleDone(u, id)
<1>1. Taken(u, v)
  BY HandleDoneGood
<1> HIDE DEF v
<1> QED BY <1>1, QuietCareful, ListTakenCareful, ActionTakenCareful DEF Taken, Good, v

\* A list is answered: with what the daemon has, or with an error.
LEMMA ListAnsweredCareful ==
  ASSUME NEW u, NEW v, NEW d, Careful(u, d), SameView(u, v), v.pending = u.pending,
         SameSlot(u, v, "action"), Told(v, "list") => Body(v, "list") = d.spaces
  PROVE  Careful(v, d)
<1>0. /\ v.spaces = u.spaces /\ v.connected = u.connected
      /\ v.dialogs = u.dialogs
  BY DEF SameView, SameRest
<1>1. /\ \A s : Aimed(v, s) <=> Aimed(u, s)
      /\ \A op, s : Doing(v, op, s) <=> Doing(u, op, s)
  BY <1>0, SameAims
<1>2. Modal(v) /\ Sends(v, d) /\ Offers(v, d)
  BY <1>0 DEF Careful, Modal, Sends, Offers, SameSlot
<1>3. Known(v, d)
  BY <1>0, <1>1, SameTells DEF Careful, Known
<1>4. Tells(d.spaces, v, d)
  BY DEF Tells, Agree
<1>5. Coming(v, d)
  BY <1>4 DEF Coming, Seen
<1> QED BY <1>2, <1>3, <1>5 DEF Careful

\* An action is answered; what it did to the daemon is done.
LEMMA ActionAnsweredCareful ==
  ASSUME NEW u, NEW v, NEW d, Careful(u, d), SameView(u, v), v.pending = u.pending,
         SameSlot(u, v, "list"), Busy(u, "action"), Busy(v, "action"),
         Result(v, "action") # "none",
         Asked(v, "action").op = Asked(u, "action").op,
         Asked(v, "action").space = Asked(u, "action").space,
         Asked(v, "action").encrypted = Asked(u, "action").encrypted,
         Asked(v, "action").passphrase = Asked(u, "action").passphrase,
         Told(v, "action") /\ Asked(u, "action").op = "create" =>
           Fits(Asked(u, "action").space, Asked(u, "action").encrypted, d)
  PROVE  Careful(v, d)
<1>0. /\ v.spaces = u.spaces /\ v.connected = u.connected
      /\ v.dialogs = u.dialogs /\ v.listAgain = u.listAgain
  BY DEF SameView, SameRest
<1>1. \A op, s : ~Doing(v, op, s)
  BY DEF Doing
<1>2. \A s : Aimed(v, s) => Aimed(u, s)
  BY <1>0, <1>1 DEF Aimed
<1>3. Modal(v) /\ Offers(v, d)
  BY <1>0 DEF Careful, Modal, Offers
<1>4. Sends(v, d)
  <2> DEFINE c == Asked(u, "action")
             b == Asked(v, "action")
             a == u.pending
  <2>1. ActionFits(c, a, d)
    BY DEF Careful, Sends
  <2>2. /\ b.op = c.op /\ b.space = c.space /\ b.encrypted = c.encrypted
        /\ b.passphrase = c.passphrase
        /\ b.answer.result = "ok" /\ c.op = "create" => Fits(c.space, c.encrypted, d)
    BY DEF Told, Result
  <2>3. b = Asked(v, "action") /\ a = v.pending
    OBVIOUS
  <2> HIDE DEF c, b, a
  <2>4. ActionFits(b, a, d)
    BY <2>1, <2>2 DEF ActionFits
  <2> QED BY <2>3, <2>4 DEF Sends
<1>5. ASSUME NEW f, Tells(f, u, d) PROVE Tells(f, v, d)
  BY <1>1, <1>2, <1>5, SameTells
<1>6. Known(v, d)
  BY <1>0, <1>5 DEF Careful, Known
<1>7. (Seen(v) <=> Seen(u)) /\ (Seen(u) => Body(v, "list") = Body(u, "list"))
  BY <1>0, SameSeen
<1>8. Coming(v, d)
  BY <1>0, <1>5, <1>7 DEF Careful, Coming
<1> QED BY <1>3, <1>4, <1>6, <1>8 DEF Careful

\* The daemon keeps its spaces and their encryption.
SameSpaces(d, e) ==
  /\ DOMAIN e.spaces = DOMAIN d.spaces
  /\ \A i \in DOMAIN d.spaces : e.spaces[i].encrypted = d.spaces[i].encrypted

LEMMA SpacesKeptCareful ==
  ASSUME NEW u, NEW d, NEW e, Careful(u, d), SameSpaces(d, e)
  PROVE  Careful(u, e)
<1>1. ASSUME NEW f, Agree(f, d.spaces) PROVE Agree(f, e.spaces)
  BY <1>1 DEF Agree, SameSpaces
<1>2. ASSUME NEW f, Tells(f, u, d) PROVE Tells(f, u, e)
  BY <1>1, <1>2 DEF Tells, SameSpaces
<1>3. ASSUME NEW s, NEW x, Fits(s, x, d) PROVE Fits(s, x, e)
  BY <1>3 DEF Fits, SameSpaces
<1>4. ASSUME NEW c, NEW a, ActionFits(c, a, d) PROVE ActionFits(c, a, e)
  BY <1>3, <1>4 DEF ActionFits
<1>5. ASSUME NEW q, Offer(q, d) PROVE Offer(q, e)
  <2>1. Fits(q.space, TRUE, d) => Fits(q.space, TRUE, e)
    BY DEF Fits, SameSpaces
  <2>2. Fits(q.space, q.encrypted, d) => Fits(q.space, q.encrypted, e)
    BY <1>3
  <2> QED BY <1>5, <2>1, <2>2 DEF Offer
<1>6. Sends(u, e) /\ Offers(u, e)
  BY <1>4, <1>5 DEF Careful, Sends, Offers
<1>7. Known(u, e)
  BY <1>1, <1>2 DEF Careful, Known
<1>8. Coming(u, e)
  BY <1>2 DEF Careful, Coming, SameSpaces
<1> QED BY <1>6, <1>7, <1>8 DEF Careful

\* The space that the Ui asked for is created: no list shows it yet, and no dialog
\* is about it.
LEMMA CreatedCareful ==
  ASSUME NEW u, NEW d, NEW e, Careful(u, d), NEW s, Doing(u, "create", s),
         u.pending # NoAction, s \notin DOMAIN d.spaces,
         DOMAIN e.spaces = DOMAIN d.spaces \cup {s},
         \A i \in DOMAIN d.spaces : e.spaces[i] = d.spaces[i]
  PROVE  Careful(u, e)
<1> DEFINE c == Asked(u, "action")
<1>1. c.op = "create" /\ c.answer.result = "none" /\ ActionFits(c, u.pending, d)
  BY DEF Doing, Careful, Sends, Result
<1>a. c = Asked(u, "action")
  OBVIOUS
<1> HIDE DEF c
<1>2. u.dialogs = {}
  BY <1>1 DEF ActionFits, Careful, Modal
<1>3. \A r : ~Aimed(u, r)
  BY <1>1, <1>2, <1>a DEF Aimed, Doing
<1>4. \A r : Doing(u, "create", r) => r = s
  BY DEF Doing
<1>5. ASSUME NEW f, Tells(f, u, d) PROVE Tells(f, u, e) /\ s \notin DOMAIN f
  BY <1>3, <1>4, <1>5 DEF Tells, Agree
<1>6. ActionFits(c, u.pending, e)
  BY <1>1 DEF ActionFits, Opening
<1>7. Sends(u, e) /\ Offers(u, e)
  BY <1>2, <1>6, <1>a DEF Sends, Offers
<1>8. Known(u, e)
  BY <1>5 DEF Careful, Known, Tells, Agree
<1>9. Coming(u, e)
  <2> SUFFICES ASSUME Seen(u) PROVE Coming(u, e)
    BY DEF Coming
  <2>1. s \notin DOMAIN u.spaces
    BY <1>5 DEF Careful, Known
  <2> QED BY <1>5, <2>1 DEF Careful, Coming
<1> QED BY <1>7, <1>8, <1>9 DEF Careful

\* The space that the Ui asked to destroy is gone: the list on screen shows it.
LEMMA DestroyedCareful ==
  ASSUME NEW u, NEW d, NEW e, Careful(u, d), NEW s, Doing(u, "destroy", s),
         s \in DOMAIN d.spaces, DOMAIN e.spaces = DOMAIN d.spaces \ {s},
         \A i \in DOMAIN e.spaces : e.spaces[i] = d.spaces[i]
  PROVE  Careful(u, e)
<1>1. \A r : ~Doing(u, "create", r)
  BY DEF Doing
<1>2. ASSUME NEW f, Agree(f, d.spaces) PROVE Agree(f, e.spaces)
  BY <1>2 DEF Agree
<1>3. ASSUME NEW f, Tells(f, u, d) PROVE Tells(f, u, e)
  BY <1>1, <1>2, <1>3 DEF Tells
<1>4. ASSUME NEW r, NEW x, Fits(r, x, d) PROVE Fits(r, x, e)
  BY <1>4 DEF Fits
<1>5. ASSUME NEW c, NEW a, ActionFits(c, a, d) PROVE ActionFits(c, a, e)
  BY <1>4, <1>5 DEF ActionFits
<1>6. ASSUME NEW q, Offer(q, d) PROVE Offer(q, e)
  <2>1. Fits(q.space, TRUE, d) => Fits(q.space, TRUE, e)
    BY DEF Fits
  <2>2. Fits(q.space, q.encrypted, d) => Fits(q.space, q.encrypted, e)
    BY <1>4
  <2> QED BY <1>6, <2>1, <2>2 DEF Offer
<1>7. Sends(u, e) /\ Offers(u, e)
  BY <1>5, <1>6 DEF Careful, Sends, Offers
<1>8. Known(u, e)
  BY <1>2, <1>3 DEF Careful, Known
<1>9. Aimed(u, s)
  BY DEF Aimed
<1>10. u.connected => s \in DOMAIN u.spaces
  BY <1>9 DEF Careful, Known, Tells
<1>11. Coming(u, e)
  BY <1>3, <1>10 DEF Careful, Coming
<1> QED BY <1>7, <1>8, <1>11 DEF Careful

LEMMA StateKeepsSpaces ==
  ASSUME DaemonOK(daemon), NEW s \in DOMAIN daemon.spaces, NEW state,
         NEW e, e = WithState(s, state)
  PROVE  SameSpaces(daemon, e)
<1> DEFINE f == daemon.spaces
           g == [f EXCEPT ![s].state = state]
<1>1. e.spaces = g
  BY DEF WithState, DaemonOK
<1>2. f[s] \in Row /\ f = [i \in DOMAIN f |-> f[i]]
  BY DEF DaemonOK, Rows
<1>3. [f[s] EXCEPT !.state = state].encrypted = f[s].encrypted
  BY <1>2 DEF Row
<1>4. DOMAIN g = DOMAIN f /\ \A i \in DOMAIN f : g[i].encrypted = f[i].encrypted
  BY <1>2, <1>3
<1> QED BY <1>1, <1>4 DEF SameSpaces

\* What the handlers do to the daemon for the Ui's action.
LEMMA EffectCareful ==
  ASSUME DaemonOK(daemon), NEW u, Typed(u), Careful(u, daemon), Busy(u, "action"),
         Result(u, "action") = "none", NEW c, c = Asked(u, "action"), Legal(c),
         NEW e, e = Effect(c)
  PROVE  /\ Careful(u, e)
         /\ c.op = "create" => Fits(c.space, c.encrypted, e)
<1>1. Doing(u, c.op, c.space)
  BY DEF Doing
<1>2. u.pending # NoAction
  <2>1. u.pending.id = Slot("action") /\ NoAction.id = NoId
    BY DEF Typed, Owned, NoAction
  <2> QED BY <2>1, SlotsDiffer DEF Kinds
<1>3. CASE c.op = "create"
  <2> DEFINE row == [state |-> "stopped", encrypted |-> c.encrypted]
             f == daemon.spaces
  <2>1. e = WithRow(c.space, row) /\ c.space \notin DOMAIN f
    BY <1>3 DEF Effect, Legal
  <2>2. row.encrypted = c.encrypted
    OBVIOUS
  <2> HIDE DEF row
  <2>3. e.spaces = [i \in DOMAIN f \cup {c.space} |-> IF i = c.space THEN row ELSE f[i]]
    BY <2>1 DEF WithRow, DaemonOK
  <2>4. /\ DOMAIN e.spaces = DOMAIN f \cup {c.space}
        /\ e.spaces[c.space] = row
        /\ \A i \in DOMAIN f : e.spaces[i] = f[i]
    BY <2>1, <2>3
  <2>5. Careful(u, e)
    BY <1>1, <1>2, <1>3, <2>1, <2>4, CreatedCareful
  <2> QED BY <2>2, <2>4, <2>5 DEF Fits
<1>4. CASE c.op = "build"
  <2>1. e = [daemon EXCEPT !.profile = "ready"]
    BY <1>4 DEF Effect
  <2>2. SameSpaces(daemon, e)
    BY <2>1 DEF SameSpaces, DaemonOK
  <2> QED BY <1>4, <2>2, SpacesKeptCareful
<1>5. CASE c.op = "destroy"
  <2> DEFINE f == daemon.spaces
  <2>1. e = WithoutRow(c.space) /\ c.space \in DOMAIN f
    BY <1>5 DEF Effect, Legal
  <2>2. e.spaces = Restrict(f, DOMAIN f \ {c.space})
    BY <2>1 DEF WithoutRow, DaemonOK
  <2>3. /\ DOMAIN e.spaces = DOMAIN f \ {c.space}
        /\ \A i \in DOMAIN e.spaces : e.spaces[i] = f[i]
    BY <2>2 DEF Restrict
  <2> QED BY <1>1, <1>5, <2>1, <2>3, DestroyedCareful
<1>6. CASE c.op \notin {"create", "build", "destroy"}
  <2>1. c.space \in DOMAIN daemon.spaces
    BY <1>6 DEF Legal
  <2>2. \/ e = WithState(c.space, "running") \/ e = WithState(c.space, "stopped")
        \/ e = daemon
    BY <1>6 DEF Effect
  <2>3. SameSpaces(daemon, e)
    <3>1. CASE e = WithState(c.space, "running")
      BY <2>1, <3>1, StateKeepsSpaces
    <3>2. CASE e = WithState(c.space, "stopped")
      BY <2>1, <3>2, StateKeepsSpaces
    <3>3. CASE e = daemon
      BY <3>3 DEF SameSpaces
    <3> QED BY <2>2, <3>1, <3>2, <3>3
  <2> QED BY <1>6, <2>3, SpacesKeptCareful
<1> QED BY <1>3, <1>4, <1>5, <1>6

\* The daemon answers an action, after it has changed to e.
LEMMA ActionEndsCareful ==
  ASSUME NEW u, Typed(u), NEW e, Careful(u, e), Busy(u, "action"),
         NEW result, result # "none",
         result = "ok" /\ Asked(u, "action").op = "create" =>
           Fits(Asked(u, "action").space, Asked(u, "action").encrypted, e),
         NEW v, v = [u EXCEPT !.calls[Slot("action")].answer =
                                [result |-> result, body |-> None]]
  PROVE  Careful(v, e)
<1> DEFINE a == [result |-> result, body |-> None]
<1>1. a.result = result /\ v = [u EXCEPT !.calls[Slot("action")].answer = a]
  OBVIOUS
<1> HIDE DEF a
<1>2. /\ "action" \in Kinds /\ "list" \in Kinds \ {"action"}
      /\ AnswerOK("action", Asked(u, "action"), a)
  BY DEF Kinds, Reads, AnswerOK
<1>3. /\ SameView(u, v) /\ SameOthers(u, v, "action") /\ v.pending = u.pending
      /\ Busy(v, "action") /\ Asked(v, "action").answer = a
      /\ Asked(v, "action").op = Asked(u, "action").op
      /\ Asked(v, "action").space = Asked(u, "action").space
      /\ Asked(v, "action").encrypted = Asked(u, "action").encrypted
      /\ Asked(v, "action").passphrase = Asked(u, "action").passphrase
  BY <1>1, <1>2, AnsweredEffect
<1>4. SameSlot(u, v, "list") /\ Result(v, "action") = result
  BY <1>1, <1>2, <1>3 DEF SameOthers, Result
<1> QED BY <1>3, <1>4, ActionAnsweredCareful DEF Told

LEMMA ServeActionCareful ==
  ASSUME Inv, Careful(ui, daemon), NEW id, ServeAction(id)
  PROVE  Careful(ui', daemon')
<1>0. Waiting(id) /\ ui.calls[id].op \in Actions
  BY DEF ServeAction
<1>1. /\ id = Slot("action") /\ Busy(ui, "action") /\ Result(ui, "action") = "none"
      /\ Asked(ui, "action") = ui.calls[id]
  BY <1>0, WhichCall
<1>2. Typed(ui) /\ DaemonOK(daemon)
  BY DEF Inv, Good
<1>3. ASSUME NEW e, Careful(ui, e), NEW result, result # "none",
             result = "ok" /\ Asked(ui, "action").op = "create" =>
               Fits(Asked(ui, "action").space, Asked(ui, "action").encrypted, e),
             Answered(id, result, None)
      PROVE  Careful(ui', e)
  <2>1. ui' = [ui EXCEPT !.calls[Slot("action")].answer =
                           [result |-> result, body |-> None]]
    BY <1>1, <1>3 DEF Answered
  <2>2. ASSUME NEW v, v = [ui EXCEPT !.calls[Slot("action")].answer =
                                       [result |-> result, body |-> None]]
        PROVE  Careful(v, e)
    BY <1>1, <1>2, <1>3, <2>2, ActionEndsCareful
  <2> QED BY <2>1, <2>2
<1>4. ASSUME Legal(ui.calls[id]), NEW e, e = Effect(ui.calls[id])
      PROVE  /\ Careful(ui, e)
             /\ Asked(ui, "action").op = "create" =>
                  Fits(Asked(ui, "action").space, Asked(ui, "action").encrypted, e)
  BY <1>1, <1>2, <1>4, EffectCareful
<1>5. CASE Carry(id)
  <2>1. ASSUME NEW e, e = Effect(ui.calls[id]) PROVE Careful(ui', e)
    BY <1>3, <1>4, <1>5, <2>1 DEF Carry
  <2> QED BY <1>5, <2>1 DEF Carry
<1>6. CASE Refuse(id)
  BY <1>3, <1>6 DEF Refuse
<1>7. CASE WrongPassphrase(id)
  BY <1>3, <1>7 DEF WrongPassphrase
<1>8. CASE FailHalfway(id)
  <2>1. ASSUME NEW e, e = Effect(ui.calls[id]) PROVE Careful(ui', e)
    BY <1>3, <1>4, <1>8, <2>1 DEF FailHalfway
  <2> QED BY <1>8, <2>1 DEF FailHalfway
<1> QED BY <1>5, <1>6, <1>7, <1>8 DEF ServeAction

\* A read is answered, whatever the answer, if a list is the daemon's.
LEMMA ReadEndsCareful ==
  ASSUME NEW u, Typed(u), NEW d, Careful(u, d), NEW k \in Reads, Busy(u, k),
         NEW a, AnswerOK(k, Asked(u, k), a), Says(k, a, d),
         NEW v, v = [u EXCEPT !.calls[Slot(k)].answer = a]
  PROVE  Careful(v, d)
<1>0. k \in Kinds /\ "action" \in Kinds \ {k} /\ "list" \in Kinds
  BY DEF Kinds, Reads
<1>1. /\ SameView(u, v) /\ SameOthers(u, v, k) /\ v.pending = u.pending
      /\ Busy(v, k) /\ Asked(v, k).answer = a
  BY <1>0, AnsweredEffect
<1>2. SameSlot(u, v, "action")
  BY <1>0, <1>1 DEF SameOthers
<1>3. CASE k = "list"
  <2>1. Told(v, "list") => Body(v, "list") = d.spaces
    BY <1>1, <1>3 DEF Told, Result, Body, Says
  <2> QED BY <1>1, <1>2, <2>1, ListAnsweredCareful
<1>4. CASE k # "list"
  <2>1. SameSlot(u, v, "list")
    BY <1>0, <1>1, <1>4 DEF SameOthers
  <2>2. Quiet(u, v)
    BY <1>1, <1>2, <2>1 DEF Quiet, Kept, SameView, SameRest
  <2> QED BY <2>2, QuietCareful
<1> QED BY <1>3, <1>4

LEMMA AnswerCareful ==
  ASSUME Inv, Careful(ui, daemon), NEW id, Answer(id), "late" \notin Failures
  PROVE  Careful(ui', daemon') /\ late' = late
<1>0. Typed(ui)
  BY DEF Inv, Good
<1>1. CASE ServeRead(id)
  <2>1. PICK k \in Reads : \E a : ReadGets(id, k, a)
    BY <1>1, ReadAnswer
  <2>2. PICK a : ReadGets(id, k, a)
    BY <2>1
  <2>3. ASSUME NEW v, v = [ui EXCEPT !.calls[Slot(k)].answer = a]
        PROVE  Careful(v, daemon)
    BY <1>0, <2>2, <2>3, ReadEndsCareful DEF ReadGets
  <2>4. Careful(ui', daemon)
    BY <2>2, <2>3 DEF ReadGets
  <2> QED BY <1>1, <2>4 DEF ServeRead
<1>2. CASE ServeAction(id)
  BY <1>2, ServeActionCareful
  DEF ServeAction, Carry, Refuse, WrongPassphrase, FailHalfway
<1>3. CASE GiveUpRead(id)
  <2>0. Waiting(id) /\ ui.calls[id].op \in Reads
    BY <1>3 DEF GiveUpRead
  <2>1. PICK k \in Reads : id = Slot(k) /\ Busy(ui, k)
    BY <2>0, WhichCall
  <2> DEFINE a == [result |-> "unreachable", body |-> None]
  <2>2. ui' = [ui EXCEPT !.calls[Slot(k)].answer = a]
    BY <1>3, <2>1 DEF GiveUpRead, Answered
  <2>3. a.result # "ok"
    OBVIOUS
  <2> HIDE DEF a
  <2>4. AnswerOK(k, Asked(ui, k), a) /\ Says(k, a, daemon)
    BY <2>3 DEF AnswerOK, Says
  <2>5. ASSUME NEW v, v = [ui EXCEPT !.calls[Slot(k)].answer = a]
        PROVE  Careful(v, daemon)
    BY <1>0, <2>1, <2>4, <2>5, ReadEndsCareful
  <2> QED BY <1>3, <2>2, <2>5 DEF GiveUpRead
<1> QED BY <1>1, <1>2, <1>3 DEF Answer, GiveUpAction, Trouble

LEMMA ChangeElsewhereCareful ==
  ASSUME Inv, Careful(ui, daemon), NEW i \in Ids, ChangeElsewhere(i),
         Elsewhere \subseteq {"state"}
  PROVE  Careful(ui', daemon')
<1>1. PICK state \in States : i \in DOMAIN daemon.spaces /\ daemon' = WithState(i, state)
  BY DEF ChangeElsewhere
<1>2. ASSUME NEW e, e = WithState(i, state) PROVE Careful(ui, e)
  BY <1>1, <1>2, StateKeepsSpaces, SpacesKeptCareful DEF Inv
<1> QED BY <1>1, <1>2 DEF ChangeElsewhere

\* A window without requests has sent nothing.
LEMMA EmptyCareful ==
  ASSUME NEW d, NEW u, u.spaces = NoRows, u.dialogs = {}, u.pending = NoAction,
         u.connected = FALSE, DOMAIN u.calls = {}
  PROVE  Careful(u, d)
<1>1. \A k : ~Busy(u, k)
  BY DEF Busy
<1>2. Modal(u) /\ Sends(u, d) /\ Offers(u, d) /\ Coming(u, d)
  BY <1>1 DEF Modal, Sends, Offers, Coming, Seen, Told
<1>3. Known(u, d)
  BY NoRowsIsTyped DEF Known, Agree
<1> QED BY <1>2, <1>3 DEF Careful

\* The inductive invariant of the passphrases: until the window closes, nothing is
\* carried out behind it; after that, it has sent nothing.
CarefulInv ==
  /\ Inv
  /\ \/ late = {} /\ Careful(ui, daemon)
     \/ ui.closed /\ DOMAIN ui.calls = {}

LEMMA CarefulInit == Init => CarefulInv
<1> SUFFICES ASSUME Init PROVE CarefulInv
  OBVIOUS
<1>1. /\ EmptyUi.spaces = NoRows /\ EmptyUi.dialogs = {}
      /\ EmptyUi.pending = NoAction /\ DOMAIN EmptyUi.calls = {}
  BY DEF EmptyUi
<1>2. EmptyUi.connected = FALSE /\ EmptyUi.closed = FALSE /\ IsUi(EmptyUi)
  BY DEF EmptyUi, IsUi
<1>3. Careful(EmptyUi, daemon)
  BY <1>1, <1>2, EmptyCareful
<1>4. Typed(EmptyUi)
  <2>1. PICK c \in BOOLEAN : c = EmptyUi.closed
    BY <1>2
  <2>2. EmptyUi = [EmptyUi EXCEPT !.closed = c]
    BY <1>2, <2>1 DEF IsUi
  <2> QED BY <2>2, EmptyGood DEF Good
<1>5. Careful(ui, daemon)
  BY <1>3, <1>4, QuietSteps, QuietCareful DEF Init, Reads
<1> QED BY <1>5, InvInit DEF Init, CarefulInv

LEMMA CarefulStep ==
  ASSUME Elsewhere \subseteq {"state"}, "late" \notin Failures, CarefulInv, [Next]_vars
  PROVE  CarefulInv'
<1>0. Inv /\ Inv'
  BY InvStep DEF CarefulInv
<1>1. CASE ui.closed /\ DOMAIN ui.calls = {}
  <2>1. ~Shown /\ \A id : ~Waiting(id)
    BY <1>1 DEF Shown, Waiting
  <2>2. ~Operator
    BY <2>1 DEF Operator, ClickRow, Navigate, Filter, ClickOperation, ClickConfirmed,
                Confirm, SubmitPassphrase, StartNow, Cancel, OpenCreateDialog,
                SubmitCreate, BuildInForm, BuildOnPage, CloseWindow, MainWindow,
                DialogShown
  <2>3. ui' = ui
    BY <2>1, <2>2 DEF Next, vars, PollRefresh, Done, Answer, ServeRead, ServeAction,
                      GiveUpRead, GiveUpAction, LateEffect, ChangeElsewhere
  <2> QED BY <1>0, <1>1, <2>3 DEF CarefulInv
<1>2. CASE late = {} /\ Careful(ui, daemon)
  <2>1. CASE UNCHANGED vars
    BY <1>0, <1>2, <2>1 DEF CarefulInv, vars
  <2>2. CASE CloseWindow
    <3>1. PICK c \in BOOLEAN : c = TRUE
      OBVIOUS
    <3>2. ui' = [EmptyUi EXCEPT !.closed = c]
      BY <2>2, <3>1 DEF CloseWindow
    <3>3. ui'.calls = [i \in {} |-> NoAction]
      BY <3>2, EmptyGood
    <3>4. ui'.closed
      BY <3>1, <3>2 DEF EmptyUi
    <3> QED BY <1>0, <3>3, <3>4 DEF CarefulInv
  <2>3. ASSUME OthersIdle, Careful(ui', daemon) PROVE CarefulInv'
    BY <1>0, <1>2, <2>3 DEF OthersIdle, CarefulInv
  <2>4. CASE Operator /\ ~CloseWindow
    <3>1. OthersIdle
      BY <2>4 DEF Operator, ClickRow, Navigate, Filter, ClickOperation, ClickConfirmed,
                  Confirm, SubmitPassphrase, StartNow, Cancel, OpenCreateDialog,
                  SubmitCreate, BuildInForm, BuildOnPage
    <3> QED BY <1>0, <1>2, <2>3, <2>4, <3>1, OperatorCareful
  <2>5. CASE PollRefresh
    BY <1>0, <1>2, <2>3, <2>5, PollCareful DEF Inv, PollRefresh
  <2>6. ASSUME NEW id \in CallIds, Done(id) PROVE CarefulInv'
    BY <1>0, <1>2, <2>3, <2>6, DoneCareful DEF Inv, Done, Shown
  <2>7. ASSUME NEW id \in CallIds, Answer(id) PROVE CarefulInv'
    BY <1>0, <1>2, <2>7, AnswerCareful DEF CarefulInv
  <2>8. ASSUME NEW i \in Ids, ChangeElsewhere(i) PROVE CarefulInv'
    <3>1. late' = late
      BY <2>8 DEF ChangeElsewhere
    <3> QED BY <1>0, <1>2, <2>8, <3>1, ChangeElsewhereCareful DEF CarefulInv
  <2> QED BY <1>2, <2>1, <2>2, <2>4, <2>5, <2>6, <2>7, <2>8 DEF Next
<1> QED BY <1>1, <1>2 DEF CarefulInv

\* No operation that opens encrypted volumes is sent without a passphrase, nor one
\* that opens plain volumes with one, whatever the lists and answers on their way
\* say, as long as others create and destroy no spaces and no action outlives the
\* window's patience.
THEOREM PassphrasesAreAsked ==
  ASSUME Elsewhere \subseteq {"state"}, "late" \notin Failures
  PROVE  Spec => []NeverWithoutPassphrase
<1>1. Init => CarefulInv
  BY CarefulInit
<1>2. CarefulInv /\ [Next]_vars => CarefulInv'
  BY CarefulStep
<1>3. CarefulInv => NeverWithoutPassphrase
  <2> SUFFICES ASSUME CarefulInv, NEW id \in DOMAIN ui.calls,
                      ui.calls[id].op \in Opening,
                      ui.calls[id].space \in DOMAIN daemon.spaces
               PROVE  daemon.spaces[ui.calls[id].space].encrypted =
                        ui.calls[id].passphrase
    BY DEF NeverWithoutPassphrase, Opening
  <2>1. PICK k \in Kinds : id = Slot(k)
    BY DEF CarefulInv, Inv, Good, Typed, Owned
  <2>2. Busy(ui, k) /\ Asked(ui, k) = ui.calls[id]
    BY <2>1 DEF Busy, Asked
  <2>3. CallOK(k, ui.calls[id])
    BY <2>2 DEF CarefulInv, Inv, Good, Typed, CallsOK
  <2>4. k = "action"
    BY <2>3 DEF CallOK, Kinds, Reads, Opening
  <2>5. Careful(ui, daemon)
    BY DEF CarefulInv
  <2>6. ActionFits(ui.calls[id], ui.pending, daemon)
    BY <2>2, <2>4, <2>5 DEF Careful, Sends
  <2> QED BY <2>6 DEF ActionFits, Fits
<1> QED BY <1>1, <1>2, <1>3, PTL DEF Spec
=============================================================================
