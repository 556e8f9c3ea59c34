------------------------------ MODULE Manager ------------------------------
(***************************************************************************)
(* miyori-manager (components/manager/src/ui.rs, daemon.rs): the operator's*)
(* window.  Every request runs in a thread of its own and its answer comes *)
(* back through a channel to the GTK loop; reads (list, describe,         *)
(* profiles) are polled every five seconds, one of each kind at a time,    *)
(* and one action at a time is pending.  What is hard is that an answer    *)
(* describes the past: the selection, the connection or the spaces may have*)
(* changed since it was asked for.                                         *)
(*                                                                         *)
(* The functions of ui.rs take the Ui and change it, and call each other.  *)
(* Here each is an operator from the Ui record to the Ui record it leaves, *)
(* and a step is one event of the GTK loop: a click, a timer, an answer.   *)
(* Buttons need no state: each function that changes what                  *)
(* sync_action_sensitivity reads calls it before it returns.               *)
(***************************************************************************)
EXTENDS Naturals, FiniteSets, FiniteSetsExt, Functions

CONSTANTS
  Ids,          \* ids of spaces, numbered in the order of the list
  Encryption,   \* are spaces encrypted: of BOOLEAN
  Images,       \* the profile's image at first: of "unbuilt", "ready"
  Operations,   \* the operations the operator uses
  Pages,        \* pages the operator visits, of "spaces", "images"
  Searches,     \* the sets of ids that a search text can leave visible
  Elsewhere,    \* of {"state", "create", "destroy"}: what others change
  Failures,     \* of {"read", "late", "partial"}
  MaxTrouble    \* bound: how often something fails or changes elsewhere

ASSUME ManagerAssumption ==
  /\ Ids \subseteq Nat \ {0} /\ IsFiniteSet(Ids)
  /\ Encryption \subseteq BOOLEAN
  /\ Images \subseteq {"unbuilt", "ready"}
  /\ Operations \subseteq {"start", "stop", "open-window", "update-image",
                          "reset-system", "reset-all", "destroy", "create",
                          "build"}
  /\ Pages \subseteq {"spaces", "images"}
  /\ Searches \subseteq SUBSET Ids
  /\ Elsewhere \subseteq {"state", "create", "destroy"}
  /\ Failures \subseteq {"read", "late", "partial"}
  /\ MaxTrouble \in Nat

VARIABLES
  ui,       \* Ui, with the threads of Daemon::send as calls
  daemon,   \* what the daemon would answer: the spaces, the profile's image
  late,     \* actions the client gave up on and the daemon still carries out
  trouble,  \* how often something failed or changed elsewhere
  unseen    \* history: the reads no answer to which has shown the last change
            \* that no action reported

vars == <<ui, daemon, late, trouble, unseen>>

-----------------------------------------------------------------------------
None == 0
NoId == <<"none", 0>>

\* net-status is a fourth, polled on the network page; nothing depends on it.
Reads == {"list", "describe", "profiles"}
Confirmed == {"update-image", "reset-system", "reset-all", "destroy"}
Immediate == {"start", "stop", "open-window"}
Actions == Immediate \cup Confirmed \cup {"create", "build"}

States == {"stopped", "running", "unresponsive"}
Row == [state : States, encrypted : Encryption]
Rows == UNION {[S -> Row] : S \in SUBSET Ids}
NoRows == [i \in {} |-> [state |-> "stopped", encrypted |-> FALSE]]

\* Request ids are only compared, so one that nothing refers to any more is as
\* good as a new one; the kind keeps ids of different requests apart.
CallIds == (Reads \cup {"action"}) \X (1..2)
NoAnswer == [result |-> "none", body |-> None]
Call(op, s, e, p) ==
  [op |-> op, space |-> s, encrypted |-> e, passphrase |-> p,
   answer |-> NoAnswer]

\* PendingAction and its kind.
NoAction == [id |-> NoId, kind |-> "other", op |-> "none", space |-> None,
             encrypted |-> FALSE]

\* detail_request: the space asked for, and whether selection_epoch is still
\* the one it was asked under (the epochs are only compared for that).
NoDetailRequest == [space |-> None, current |-> FALSE]

\* What the detail page shows, if it is visible.
NoDetails == [space |-> None,
              row |-> [state |-> "stopped", encrypted |-> FALSE]]

\* Modal windows: confirm_and_send, open_passphrase_dialog, open_create_dialog,
\* prompt_start_after_create.
Dialog(type, op, s, e) ==
  [type |-> type, op |-> op, space |-> s, encrypted |-> e]
CreateDialog == Dialog("create", "create", None, FALSE)

\* build_window: nothing is known, and the first list is asked for.
EmptyUi ==
  [connected |-> FALSE, closed |-> FALSE, page |-> "spaces",
   selected |-> None, pendingSelect |-> None, spaces |-> NoRows,
   search |-> Ids, runningOnly |-> FALSE, details |-> NoDetails,
   detailRequest |-> NoDetailRequest, profile |-> "none", form |-> "none",
   latest |-> [k \in Reads |-> NoId],
   listAgain |-> FALSE, profilesAgain |-> FALSE,
   pending |-> NoAction, dialogs |-> {}, calls |-> [i \in {} |-> NoAction]]

-----------------------------------------------------------------------------
(* Requests.                                                               *)

NextRequestId(u, kind) ==
  LET used == DOMAIN u.calls \cup Range(u.latest) \cup {u.pending.id}
      n == IF <<kind, 1>> \in used THEN 2 ELSE 1
  IN  <<kind, n>>

\* Daemon::send: a thread for the call.
Send(u, id, call) ==
  [u EXCEPT !.calls = [i \in DOMAIN @ \cup {id} |->
                         IF i = id THEN call ELSE @[i]]]

\* Fault model: a read is sent although one is on its way.
RefreshAnyway(u, kind) ==
  LET id == NextRequestId(u, kind)
  IN  IF u.closed THEN u
      ELSE Send([u EXCEPT !.latest[kind] = id], id,
                Call(kind, None, FALSE, FALSE))

\* refresh_list, request_profiles_for_dialog.
Refresh(u, kind) ==
  LET id == NextRequestId(u, kind)
  IN  IF u.closed \/ u.latest[kind] # NoId THEN u
      ELSE Send([u EXCEPT !.latest[kind] = id], id,
                Call(kind, None, FALSE, FALSE))

RefreshDetail(u, s) ==
  LET id == NextRequestId(u, "describe")
  IN  IF u.closed \/ ~u.connected \/ u.latest["describe"] # NoId THEN u
      ELSE Send([u EXCEPT !.latest["describe"] = id,
                          !.detailRequest = [space |-> s, current |-> TRUE]],
                id, Call("describe", s, FALSE, FALSE))

SendAction(u, kind, op, s, e, p) ==
  LET id == NextRequestId(u, "action")
  IN  IF u.closed \/ ~u.connected \/ u.pending # NoAction THEN u
      ELSE Send([u EXCEPT !.pending = [id |-> id, kind |-> kind, op |-> op,
                                       space |-> s, encrypted |-> e]],
                id, Call(op, s, e, p))

-----------------------------------------------------------------------------
(* Rendering.                                                              *)

\* Fault model: the epoch does not move.
SameEpoch(u) == u

\* selection_epoch + 1.
NextEpoch(u) == [u EXCEPT !.detailRequest.current = FALSE]

SelectSpace(u, s) ==
  LET v == IF u.selected = s THEN u
           ELSE [NextEpoch(u) EXCEPT !.selected = s, !.details = NoDetails]
  IN  IF s \notin DOMAIN v.spaces THEN [v EXCEPT !.details = NoDetails]
      ELSE IF v.details = NoDetails THEN RefreshDetail(v, s)
      ELSE v

Visible(u) ==
  {i \in DOMAIN u.spaces \cap u.search :
     u.runningOnly => u.spaces[i].state = "running"}

FilterSpaces(u) ==
  LET visible == Visible(u)
  IN  SelectSpace(u, CASE u.selected \in visible -> u.selected
                       [] u.selected \notin visible /\ visible # {} ->
                            Min(visible)
                       [] OTHER -> None)

\* Fault model: the filter stays as it was.
SelectUnderFilter(u) ==
  IF u.pendingSelect \notin DOMAIN u.spaces THEN u
  ELSE [NextEpoch(u) EXCEPT !.pendingSelect = None,
                            !.selected = u.pendingSelect,
                            !.details = NoDetails]

\* A space just created is selected whatever the filter was.
HonourPendingSelect(u) ==
  IF u.pendingSelect \notin DOMAIN u.spaces THEN u
  ELSE [NextEpoch(u) EXCEPT !.pendingSelect = None, !.search = Ids,
                            !.runningOnly = FALSE,
                            !.selected = u.pendingSelect,
                            !.details = NoDetails]

RenderSpaces(u, answer) ==
  IF answer.result = "ok"
  THEN FilterSpaces(HonourPendingSelect(
         [u EXCEPT !.connected = TRUE, !.spaces = answer.body]))
  ELSE SelectSpace([NextEpoch(u) EXCEPT !.connected = FALSE,
                                        !.spaces = NoRows], None)

RenderDetail(u, answer) ==
  [u EXCEPT !.details = IF answer.result = "ok" THEN answer.body
                        ELSE NoDetails]

\* The form keeps a copy of its own while it is open.
RenderProfiles(u, answer) ==
  LET seen == IF answer.result = "ok" THEN answer.body ELSE "none"
  IN  [u EXCEPT !.profile = seen,
                !.form = IF CreateDialog \in u.dialogs THEN seen ELSE @]

-----------------------------------------------------------------------------
(* handle_done: an answer.                                                 *)

DoneList(u, answer) ==
  LET v == [u EXCEPT !.latest["list"] = NoId, !.listAgain = FALSE]
  IN  IF u.listAgain THEN Refresh(v, "list") ELSE RenderSpaces(v, answer)

\* Fault model: the answer is rendered whatever is selected now.
DoneAnyDetail(u, answer) ==
  LET v == [u EXCEPT !.latest["describe"] = NoId,
                     !.detailRequest = NoDetailRequest]
  IN  IF u.connected THEN RenderDetail(v, answer) ELSE v

DoneDetail(u, answer) ==
  LET v == [u EXCEPT !.latest["describe"] = NoId,
                     !.detailRequest = NoDetailRequest]
      current == u.detailRequest.current /\ u.detailRequest.space = u.selected
  IN  CASE ~u.connected -> v
        [] u.connected /\ current -> RenderDetail(v, answer)
        [] u.connected /\ ~current /\ u.selected # None ->
             RefreshDetail(v, u.selected)
        [] OTHER -> v

\* Fault model: profiles_again is not looked at.
DoneProfilesOnce(u, answer) ==
  RenderProfiles([u EXCEPT !.latest["profiles"] = NoId,
                           !.profilesAgain = FALSE], answer)

DoneProfiles(u, answer) ==
  LET v == [u EXCEPT !.latest["profiles"] = NoId, !.profilesAgain = FALSE]
  IN  IF u.profilesAgain THEN Refresh(v, "profiles")
      ELSE RenderProfiles(v, answer)

\* Fault model: a list on its way is taken to be enough.
ListOnItsWay(u) == Refresh(u, "list")

\* What is on its way was asked before the action ended and is asked again.
ListAfterAction(u) ==
  IF u.latest["list"] # NoId THEN [u EXCEPT !.listAgain = TRUE]
  ELSE Refresh(u, "list")

ProfilesAfterAction(u) ==
  IF u.latest["profiles"] # NoId THEN [u EXCEPT !.profilesAgain = TRUE]
  ELSE Refresh(u, "profiles")

DetailAfterAction(u) ==
  IF u.selected # None THEN RefreshDetail(u, u.selected) ELSE u

PromptStartAfterCreate(u, a) ==
  IF a.kind # "create" THEN u
  ELSE [u EXCEPT !.pendingSelect = a.space,
                 !.dialogs = @ \cup {Dialog("prompt", "start", a.space,
                                            a.encrypted)}]

DoneAction(u, answer) ==
  LET a == u.pending
      v == [u EXCEPT !.pending = NoAction]
  IN  CASE answer.result = "ok" ->
             ProfilesAfterAction(DetailAfterAction(ListAfterAction(
               NextEpoch(PromptStartAfterCreate(v, a)))))
        [] answer.result = "wrong-passphrase" /\ a.kind = "passphrase" ->
             [v EXCEPT !.dialogs = @ \cup {Dialog("passphrase", a.op,
                                                  a.space, TRUE)}]
        [] OTHER -> v

HandleDone(u, id) ==
  LET answer == u.calls[id].answer
      v == [u EXCEPT !.calls = Restrict(@, DOMAIN @ \ {id})]
  IN  CASE id = u.latest["list"] -> DoneList(v, answer)
        [] id = u.latest["describe"] -> DoneDetail(v, answer)
        [] id = u.latest["profiles"] -> DoneProfiles(v, answer)
        [] id = u.pending.id -> DoneAction(v, answer)
        [] OTHER -> v

-----------------------------------------------------------------------------
(* Events of the GTK loop.  A modal dialog keeps the operator from the main*)
(* window, not the timers and answers.                                     *)

Idle(u) == u.pending = NoAction /\ u.connected

ActionEnabled(op, u) ==
  /\ u.selected \in DOMAIN u.spaces
  /\ LET state == u.spaces[u.selected].state
     IN  CASE op = "stop" -> state \in {"running", "unresponsive"}
           [] op = "open-window" -> state = "running"
           [] OTHER -> state = "stopped"

Sensitive(u, op) == Idle(u) /\ ActionEnabled(op, u)

\* Fault model: update-image is forgotten.
NeedsPassphraseButForImages(op, u, s) ==
  /\ op \in {"start", "reset-system", "reset-all"}
  /\ s \in DOMAIN u.spaces
  /\ u.spaces[s].encrypted

NeedsPassphrase(op, u, s) ==
  /\ op \in {"start", "reset-system", "reset-all", "update-image"}
  /\ s \in DOMAIN u.spaces
  /\ u.spaces[s].encrypted

\* The end of a click on an operation: ask for the passphrase or send.
AskOrSend(u, op, s, encrypted) ==
  IF encrypted
  THEN [u EXCEPT !.dialogs = @ \cup {Dialog("passphrase", op, s, TRUE)}]
  ELSE SendAction(u, "other", op, s, FALSE, FALSE)

\* The form's entries and its copy of the profiles go with it.
Close(u, d) ==
  [u EXCEPT !.dialogs = @ \ {d},
            !.form = IF d = CreateDialog THEN "none" ELSE @]

Shown == ~ui.closed
MainWindow == Shown /\ ui.dialogs = {}
DialogShown(d) == Shown /\ d \in ui.dialogs

OthersIdle == UNCHANGED <<daemon, late, trouble, unseen>>

ClickRow(s) ==
  /\ MainWindow
  /\ s \in Visible(ui) \cup {None}
  /\ ui' = SelectSpace(ui, s)
  /\ OthersIdle

\* The buttons of the side bar, the activity button and build_button.
Navigate(page) ==
  /\ MainWindow
  /\ ui' = LET v == [ui EXCEPT !.page = page]
           IN  IF page = "images" THEN Refresh(v, "profiles") ELSE v
  /\ OthersIdle

Filter(search, runningOnly) ==
  /\ MainWindow
  /\ ui' = FilterSpaces([ui EXCEPT !.search = search,
                                   !.runningOnly = runningOnly])
  /\ OthersIdle

\* start_button, stop_button, open_window_button.
ClickOperation(op) ==
  /\ MainWindow /\ Sensitive(ui, op)
  /\ ui' = AskOrSend(ui, op, ui.selected, NeedsPassphrase(op, ui, ui.selected))
  /\ OthersIdle

ClickConfirmed(op) ==
  /\ MainWindow /\ Sensitive(ui, op)
  /\ ui' = [ui EXCEPT !.dialogs = @ \cup {Dialog("confirm", op, ui.selected,
                                                 FALSE)}]
  /\ OthersIdle

Confirm(d) ==
  /\ DialogShown(d) /\ d.type = "confirm"
  /\ ui' = AskOrSend(Close(ui, d), d.op, d.space,
                     NeedsPassphrase(d.op, ui, d.space))
  /\ OthersIdle

\* The dialog closes whether or not send_action took the request.
SubmitPassphrase(d) ==
  /\ DialogShown(d) /\ d.type = "passphrase"
  /\ ui' = Close(SendAction(ui, "passphrase", d.op, d.space, TRUE, TRUE), d)
  /\ OthersIdle

StartNow(d) ==
  /\ DialogShown(d) /\ d.type = "prompt"
  /\ ui' = Close(AskOrSend(ui, "start", d.space, d.encrypted), d)
  /\ OthersIdle

Cancel(d) ==
  /\ DialogShown(d)
  /\ ui' = Close(ui, d)
  /\ OthersIdle

OpenCreateDialog ==
  /\ "create" \in Operations
  /\ MainWindow /\ Idle(ui)
  /\ ui' = Refresh([ui EXCEPT !.dialogs = @ \cup {CreateDialog},
                              !.form = "none"], "profiles")
  /\ OthersIdle

\* revalidate and try_submit_create.
SubmitCreate(s, encrypted) ==
  /\ DialogShown(CreateDialog) /\ Idle(ui)
  /\ ui.form = "ready" /\ s \notin DOMAIN ui.spaces
  /\ ui' = Close(SendAction(ui, "create", "create", s, encrypted, encrypted),
                 CreateDialog)
  /\ OthersIdle

BuildInForm ==
  /\ "build" \in Operations
  /\ DialogShown(CreateDialog) /\ Idle(ui)
  /\ ui.form = "unbuilt"
  /\ ui' = SendAction(ui, "other", "build", None, FALSE, FALSE)
  /\ OthersIdle

BuildOnPage ==
  /\ "build" \in Operations
  /\ MainWindow /\ Idle(ui)
  /\ ui.page = "images" /\ ui.profile # "none"
  /\ ui' = SendAction(ui, "other", "build", None, FALSE, FALSE)
  /\ OthersIdle

\* Fault model: only the page on screen is polled.
PollPage ==
  /\ Shown
  /\ ui' = IF ui.page = "spaces" /\ ui.selected # None
           THEN RefreshDetail(ui, ui.selected) ELSE ui
  /\ OthersIdle

\* poll_refresh, every five seconds.
PollRefresh ==
  /\ Shown
  /\ ui' = LET v == Refresh(ui, "list")
               w == CASE v.page = "images" -> Refresh(v, "profiles")
                      [] v.page = "spaces" /\ v.selected # None ->
                           RefreshDetail(v, v.selected)
                      [] OTHER -> v
           IN  IF CreateDialog \in w.dialogs THEN Refresh(w, "profiles") ELSE w
  /\ OthersIdle

\* poll_updates: an answer reaches the loop.
Done(id) ==
  /\ Shown
  /\ id \in DOMAIN ui.calls /\ ui.calls[id].answer.result # "none"
  /\ ui' = HandleDone(ui, id)
  /\ OthersIdle

-----------------------------------------------------------------------------
(* The daemon, as far as its answers show: one profile, and for each space *)
(* what list says of it.  Spaces models how it gets there.                 *)

\* The handlers' checks: the space exists, the passphrase is given exactly for
\* an encrypted space, and its state fits.
Legal(c) ==
  CASE c.op = "create" ->
         c.space \notin DOMAIN daemon.spaces /\ daemon.profile = "ready"
    [] c.op = "build" -> TRUE
    [] OTHER ->
         /\ c.space \in DOMAIN daemon.spaces
         /\ LET row == daemon.spaces[c.space]
            IN  CASE c.op = "stop" -> row.state # "stopped"
                  [] c.op = "open-window" -> row.state = "running"
                  [] c.op = "destroy" -> row.state = "stopped"
                  [] OTHER -> /\ row.state = "stopped"
                              /\ row.encrypted = c.passphrase

WithRow(s, row) ==
  [daemon EXCEPT !.spaces = [i \in DOMAIN @ \cup {s} |->
                               IF i = s THEN row ELSE @[i]]]
WithState(s, state) == [daemon EXCEPT !.spaces[s].state = state]
WithoutRow(s) == [daemon EXCEPT !.spaces = Restrict(@, DOMAIN @ \ {s})]

Effect(c) ==
  CASE c.op = "create" ->
         WithRow(c.space, [state |-> "stopped", encrypted |-> c.encrypted])
    [] c.op = "build" -> [daemon EXCEPT !.profile = "ready"]
    [] c.op = "start" -> WithState(c.space, "running")
    [] c.op = "stop" -> WithState(c.space, "stopped")
    [] c.op = "destroy" -> WithoutRow(c.space)
    [] OTHER -> daemon

Answered(id, result, body) ==
  ui' = [ui EXCEPT !.calls[id].answer = [result |-> result, body |-> body]]

Waiting(id) == id \in DOMAIN ui.calls /\ ui.calls[id].answer.result = "none"

Disturbed == trouble < MaxTrouble /\ trouble' = trouble + 1
Trouble(failure) == failure \in Failures /\ Disturbed

\* list, describe, profiles and net_status take no lock.
ServeRead(id) ==
  /\ Waiting(id) /\ ui.calls[id].op \in Reads
  /\ LET c == ui.calls[id]
     IN  CASE c.op = "list" -> Answered(id, "ok", daemon.spaces)
           [] c.op = "profiles" -> Answered(id, "ok", daemon.profile)
           [] c.op = "describe" /\ c.space \in DOMAIN daemon.spaces ->
                Answered(id, "ok", [space |-> c.space,
                                    row |-> daemon.spaces[c.space]])
           [] OTHER -> Answered(id, "refused", None)
  /\ unseen' = unseen \ {ui.calls[id].op}
  /\ UNCHANGED <<daemon, late, trouble>>

Carry(id) ==
  /\ Waiting(id) /\ Legal(ui.calls[id])
  /\ Answered(id, "ok", None)
  /\ daemon' = Effect(ui.calls[id])
  /\ UNCHANGED <<late, trouble, unseen>>

\* Refused by a check, or failed before anything changed.
Refuse(id) ==
  /\ Waiting(id)
  /\ Answered(id, "refused", None)
  /\ UNCHANGED <<daemon, late, trouble, unseen>>

\* QEMU could not open the volumes with what it was given.
WrongPassphrase(id) ==
  /\ Waiting(id) /\ Legal(ui.calls[id])
  /\ ui.calls[id].op = "start" /\ ui.calls[id].passphrase
  /\ Answered(id, "wrong-passphrase", None)
  /\ UNCHANGED <<daemon, late, trouble, unseen>>

\* An error after the change: stop whose tap cannot be deleted, destroy whose
\* rules cannot be loaded.
FailHalfway(id) ==
  /\ Trouble("partial")
  /\ Waiting(id) /\ Legal(ui.calls[id])
  /\ ui.calls[id].op \in {"stop", "destroy"}
  /\ Answered(id, "refused", None)
  /\ daemon' = Effect(ui.calls[id])
  /\ unseen' = Reads
  /\ UNCHANGED late

ServeAction(id) ==
  /\ Waiting(id) /\ ui.calls[id].op \in Actions
  /\ \/ Carry(id)
     \/ Refuse(id)
     \/ WrongPassphrase(id)
     \/ FailHalfway(id)

\* The connection fails or request_timeout runs out.
GiveUpRead(id) ==
  /\ Trouble("read")
  /\ Waiting(id) /\ ui.calls[id].op \in Reads
  /\ Answered(id, "unreachable", None)
  /\ UNCHANGED <<daemon, late, unseen>>

\* The request may have been lost or may still be carried out (LateEffect), with
\* or without this manager: the daemon does not notice that nobody waits.
GiveUpAction(id) ==
  /\ Waiting(id) /\ ui.calls[id].op \in Actions
  /\ Trouble("late")
  /\ Answered(id, "unreachable", None)
  /\ late' = late \cup {ui.calls[id]}
  /\ UNCHANGED <<daemon, unseen>>

LateEffect(c) ==
  /\ c \in late
  /\ late' = late \ {c}
  /\ daemon' = IF Legal(c) THEN Effect(c) ELSE daemon
  /\ unseen' = Reads
  /\ UNCHANGED <<ui, trouble>>

\* A guest ends, hangs or recovers; another client starts, creates, destroys.
ChangeElsewhere(i) ==
  /\ Disturbed
  /\ \/ /\ "state" \in Elsewhere /\ i \in DOMAIN daemon.spaces
        /\ \E state \in States \ {daemon.spaces[i].state} :
             daemon' = WithState(i, state)
     \/ /\ "create" \in Elsewhere /\ i \notin DOMAIN daemon.spaces
        /\ \E e \in Encryption :
             daemon' = WithRow(i, [state |-> "stopped", encrypted |-> e])
     \/ /\ "destroy" \in Elsewhere /\ i \in DOMAIN daemon.spaces
        /\ daemon.spaces[i].state = "stopped"
        /\ daemon' = WithoutRow(i)
  /\ unseen' = Reads
  /\ UNCHANGED <<ui, late>>

\* close_request: the application ends with its window, and the threads with
\* it; the daemon carries out what it has been sent.
CloseWindow ==
  /\ Shown
  /\ ui' = [EmptyUi EXCEPT !.closed = TRUE]
  /\ late' = late \cup {ui.calls[id] : id \in {i \in DOMAIN ui.calls :
                          Waiting(i) /\ ui.calls[i].op \in Actions}}
  /\ UNCHANGED <<daemon, trouble, unseen>>

-----------------------------------------------------------------------------
Init ==
  /\ ui = Refresh(EmptyUi, "list")
  /\ daemon \in [spaces : {f \in Rows : \A i \in DOMAIN f :
                                       f[i].state = "stopped"},
                profile : Images]
  /\ late = {}
  /\ trouble = 0
  /\ unseen = {}

Operator ==
  \/ \E s \in Ids \cup {None} : ClickRow(s)
  \/ \E page \in Pages : Navigate(page)
  \/ \E search \in Searches, r \in BOOLEAN : Filter(search, r)
  \/ \E op \in Operations \cap Immediate : ClickOperation(op)
  \/ \E op \in Operations \cap Confirmed : ClickConfirmed(op)
  \/ \E d \in ui.dialogs :
       Confirm(d) \/ SubmitPassphrase(d) \/ StartNow(d) \/ Cancel(d)
  \/ OpenCreateDialog
  \/ \E s \in Ids, e \in Encryption : SubmitCreate(s, e)
  \/ BuildInForm
  \/ BuildOnPage
  \/ CloseWindow

Answer(id) == \/ ServeRead(id) \/ ServeAction(id)
              \/ GiveUpRead(id) \/ GiveUpAction(id)

Next ==
  \/ Operator
  \/ PollRefresh
  \/ \E id \in CallIds : Done(id) \/ Answer(id)
  \/ \E c \in late : LateEffect(c)
  \/ \E i \in Ids : ChangeElsewhere(i)

Spec == Init /\ [][Next]_vars

\* The loop's timers run, every call has a timeout and every answer is read in
\* turn.  Of the calls only list is needed, and one is on its way at a time
\* (EveryAnswerHasAnOwner).
Fairness ==
  /\ WF_vars(PollRefresh)
  /\ WF_vars(Done(<<"list", 1>>))
  /\ WF_vars(Answer(<<"list", 1>>))

FairSpec == Spec /\ Fairness

-----------------------------------------------------------------------------
(* Properties.                                                             *)

TypeOK ==
  /\ daemon.spaces \in Rows /\ daemon.profile \in {"unbuilt", "ready"}
  /\ ui.spaces \in Rows
  /\ {ui.selected, ui.pendingSelect} \subseteq Ids \cup {None}
  /\ ui.search \subseteq Ids
  /\ ui.details \in [space : Ids, row : Row] \cup {NoDetails}
  /\ {ui.profile, ui.form} \subseteq {"none", "unbuilt", "ready"}
  /\ Range(ui.latest) \cup {ui.pending.id} \subseteq CallIds \cup {NoId}
  /\ DOMAIN ui.calls \subseteq CallIds
  /\ \A c \in late : c.op \in Actions
  /\ unseen \subseteq Reads

\* The details on screen are those of the space that is selected and listed,
\* however late they came.
DetailsOfSelected ==
  ui.details # NoDetails =>
    ui.details.space = ui.selected /\ ui.selected \in DOMAIN ui.spaces

Settled(kind) == /\ Shown /\ Idle(ui)
                 /\ ui.latest[kind] = NoId /\ kind \notin unseen

\* Once an action has ended and no list is on its way, the list on screen is
\* the daemon's, unless something changed that no action reported: an answer
\* from before the action is never the last word.
ListFollowsActions == Settled("list") => ui.spaces = daemon.spaces

\* The same of the details.
DetailsFollowActions ==
  Settled("describe") /\ ui.details # NoDetails =>
    /\ ui.details.space \in DOMAIN daemon.spaces
    /\ ui.details.row = daemon.spaces[ui.details.space]

\* The same of the image's state, on the page and in the form, so that the form
\* can submit after its own build.
ProfilesFollowActions ==
  Settled("profiles") => {ui.profile, ui.form} \subseteq {"none", daemon.profile}

\* Every request on its way is the one its slot waits for, and no slot waits for
\* a request that is gone: no answer is lost and no slot blocked for ever.
EveryAnswerHasAnOwner ==
  LET slots == Range(ui.latest) \cup {ui.pending.id}
  IN  DOMAIN ui.calls = slots \ {NoId}

\* No operation that opens encrypted volumes is sent without a passphrase.
NeverWithoutPassphrase ==
  \A id \in DOMAIN ui.calls :
    LET c == ui.calls[id]
    IN  /\ c.op \in {"start", "reset-system", "reset-all", "update-image"}
        /\ c.space \in DOMAIN daemon.spaces
        => daemon.spaces[c.space].encrypted = c.passphrase

\* A space just created is selected when it first appears, whatever was selected
\* or filtered before.
CreatedSpaceIsSelected ==
  [][ui.pendingSelect # None /\ ui'.pendingSelect = None /\ ~ui'.closed
       => ui'.selected = ui.pendingSelect]_vars

\* When nothing changes any more and no action runs, the list on screen becomes
\* the daemon's and stays so, whatever was missed before and whatever the
\* operator does.
ListConverges ==
  <>[][FALSE]_<<daemon, late, ui.pending>> =>
    <>[](Shown /\ ui.connected => ui.spaces = daemon.spaces)
=============================================================================
