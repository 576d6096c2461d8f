------------------------------- MODULE DriveLink -------------------------------
(***************************************************************************)
(* The connection to Google Drive (nmapui/google_drive.py, the Drive       *)
(* routes of nmapui/handlers/settings.py and the uploads of app.py):       *)
(* consent, tokens, the sync section of the settings and disconnection.    *)
(*                                                                         *)
(* Every consent may be given by a different account, so a consent, the    *)
(* grant it leads to and the account share a number.  _TOKEN_LOCK is held  *)
(* across the calls to Google; SETTINGS_STATE_LOCK is held within one      *)
(* step.  An unused operator right before one of the same parameters is a  *)
(* plausible slip in it.                                                   *)
(***************************************************************************)
EXTENDS Naturals

CONSTANTS
  Handlers,      \* request threads
  Uploaders,     \* threads that upload a report
  MaxConsents,   \* bound: consents asked for
  MaxEvents      \* bound: forms, expiries, revocations, failed saves and crashes together

Consents == 1..MaxConsents
None == 0
Threads == Handlers \union Uploaders

ASSUME LinkAssumption ==
  /\ None \notin Threads /\ Handlers \intersect Uploaders = {}
  /\ MaxConsents \in Nat /\ MaxEvents \in Nat

VARIABLES
  tokens,      \* the encrypted token file
  memory,      \* settings_state["sync"]["google_drive"]
  disk,        \* the same in settings.json
  form,        \* a settings form a browser holds
  lifecycle,   \* who holds drive_lifecycle_lock
  tokenLock,   \* who holds _TOKEN_LOCK
  handler,     \* the request of each handler thread
  uploader,    \* the upload of each uploader thread
  asked,       \* consents asked for so far
  exchanged,   \* how often Google was given the code of each consent
  live,        \* grants Google honours
  ended,       \* consents asked for before tokens were last cleared
  off,         \* a disconnection has been answered, and no later consent completed
  formed,      \* a form has been submitted
  faulted,     \* a save has raised or the process has died
  events       \* how many so far

locks  == <<lifecycle, tokenLock>>
google == <<asked, exchanged, live>>
ghosts == <<ended, off, formed, faulted>>
vars == <<tokens, memory, disk, form, locks, handler, uploader, google, ghosts, events>>

-----------------------------------------------------------------------------
Grant == Consents \union {None}
Tokens == [pending : Grant, refresh : Grant, access : Grant, fresh : BOOLEAN]
Disconnected == [pending |-> None, refresh |-> None, access |-> None, fresh |-> FALSE]
Sync == [enabled : BOOLEAN, folder : Grant]

Handler == [pc : {"idle", "state", "contact", "folder", "connected", "revoke", "clear",
                  "disconnected"},
            consent : Grant, folder : Grant]
NoRequest == [pc |-> "idle", consent |-> None, folder |-> None]

\* An uploader that refreshes works on the token file as it read it.
Uploader == [pc : {"idle", "token", "force", "refresh", "use"}, token : Grant, read : Tokens]
NoUpload == [pc |-> "idle", token |-> None, read |-> Disconnected]

OneMore == events < MaxEvents /\ events' = events + 1
Fault == faulted' = TRUE /\ OneMore

At(h, pc) == handler[h].pc = pc
Goto(h, pc) == handler' = [handler EXCEPT ![h].pc = pc]
Finish(h) == handler' = [handler EXCEPT ![h] = NoRequest] /\ lifecycle' = None

-----------------------------------------------------------------------------
(***************************************************************************)
(* Consent.  A new one replaces the pending state; the callback consumes   *)
(* it before it contacts Google.                                           *)
(***************************************************************************)
AskConsent(h) ==
  /\ At(h, "idle") /\ lifecycle = None /\ tokenLock = None
  /\ asked < MaxConsents
  /\ asked' = asked + 1
  /\ tokens' = [tokens EXCEPT !.pending = asked + 1]
  /\ UNCHANGED <<memory, disk, form, locks, handler, uploader, exchanged, live, ghosts, events>>

\* The browser may bring the code of any consent, again or late.
Callback(h, k) ==
  /\ At(h, "idle") /\ lifecycle = None
  /\ k <= asked
  /\ lifecycle' = h
  /\ handler' = [handler EXCEPT ![h] = [pc |-> "state", consent |-> k, folder |-> None]]
  /\ UNCHANGED <<tokens, memory, disk, form, tokenLock, uploader, google, ghosts, events>>

Consumed == [tokens EXCEPT !.pending = None]

RefuseState(h) ==
  /\ At(h, "state") /\ tokenLock = None
  /\ tokens.pending # handler[h].consent
  /\ Finish(h)
  /\ UNCHANGED <<tokens, memory, disk, form, tokenLock, uploader, google, ghosts, events>>

ConsumeState(h) ==
  /\ At(h, "state") /\ tokenLock = None
  /\ tokens.pending = handler[h].consent
  /\ tokens' = Consumed
  /\ \/ tokenLock' = h /\ Goto(h, "contact") /\ UNCHANGED lifecycle
     \/ Finish(h) /\ UNCHANGED tokenLock                          \* older than ten minutes
  /\ UNCHANGED <<memory, disk, form, uploader, google, ghosts, events>>

\* Google may issue no refresh token; the one before it is another account's.
KeptRefresh(k) == IF tokens.refresh = None THEN k ELSE tokens.refresh

IssuedRefresh(k) == None

Contacted(k) == exchanged' = [exchanged EXCEPT ![k] = @ + 1]

ExchangeCode(h) ==
  /\ At(h, "contact")
  /\ LET k == handler[h].consent IN
       /\ exchanged[k] = 0
       /\ Contacted(k)
       /\ live' = live \union {k}
       /\ \E refresh \in {k, IssuedRefresh(k)} :
            tokens' = [pending |-> None, refresh |-> refresh, access |-> k, fresh |-> TRUE]
  /\ tokenLock' = None
  /\ Goto(h, "folder")
  /\ UNCHANGED <<memory, disk, form, lifecycle, uploader, asked, ghosts, events>>

\* Google cannot be reached or refuses the code, or its answer is lost or not saved.
ExchangeFails(h) ==
  /\ At(h, "contact")
  /\ Contacted(handler[h].consent)
  /\ live' \in {live, live \union {handler[h].consent}}
  /\ tokenLock' = None
  /\ Finish(h)
  /\ UNCHANGED <<tokens, memory, disk, form, uploader, asked, ghosts, events>>

Renewed(t) == [t EXCEPT !.access = t.refresh, !.fresh = TRUE]

\* A grant Google no longer honours is dropped; the pending consent stays.
Dropped(t) == [Disconnected EXCEPT !.pending = t.pending]

RefreshOf(t) ==
  IF t.refresh = None THEN {} ELSE IF t.refresh \in live THEN {Renewed(t)} ELSE {Dropped(t)}

\* The folder is looked up, or created, with the token at hand or a refreshed one.
FindFolder(h) ==
  /\ At(h, "folder") /\ tokenLock = None
  /\ tokens' \in {tokens} \union RefreshOf(tokens)
  /\ \E found \in {None, tokens'.access} :
       handler' = [handler EXCEPT ![h] = [pc |-> "connected", consent |-> @.consent, folder |-> found]]
  /\ UNCHANGED <<memory, disk, form, locks, uploader, google, ghosts, events>>

EnabledAnyway(h) == TRUE

SyncEnabled(h) == handler[h].folder # None

SaveConnected(h) ==
  /\ At(h, "connected")
  /\ memory' = [enabled |-> SyncEnabled(h),
                folder |-> IF handler[h].folder # None THEN handler[h].folder ELSE memory.folder]
  /\ disk' = memory'
  /\ off' = (off /\ handler[h].consent <= ended)
  /\ Finish(h)
  /\ UNCHANGED <<tokens, form, tokenLock, uploader, google, ended, formed, faulted, events>>

\* save_settings raises: memory and disk stay, tokens are what they have become.
SaveFails(h) ==
  /\ At(h, "connected") \/ At(h, "disconnected")
  /\ Fault
  /\ Finish(h)
  /\ UNCHANGED <<tokens, memory, disk, form, tokenLock, uploader, google, ended, off, formed>>

-----------------------------------------------------------------------------
(***************************************************************************)
(* Disconnection: revoke at Google, remove the token file, disable sync.   *)
(***************************************************************************)

DisconnectAdmitted(h) == lifecycle = None

Disconnect(h) ==
  /\ At(h, "idle") /\ DisconnectAdmitted(h)
  /\ tokens # Disconnected \/ memory.enabled
  /\ lifecycle' = h
  /\ Goto(h, "revoke")
  /\ UNCHANGED <<tokens, memory, disk, form, tokenLock, uploader, google, ghosts, events>>

Revoked == IF tokens.refresh # None THEN tokens.refresh ELSE tokens.access

\* Revocation may fail; the answer says so.
Revoke(h) ==
  /\ At(h, "revoke") /\ tokenLock = None
  /\ tokenLock' = h
  /\ live' \in {live, live \ {Revoked}}
  /\ Goto(h, "clear")
  /\ UNCHANGED <<tokens, memory, disk, form, lifecycle, uploader, asked, exchanged, ghosts, events>>

ClearTokens(h) ==
  /\ At(h, "clear")
  /\ tokens' = Disconnected
  /\ ended' = asked
  /\ tokenLock' = None
  /\ Goto(h, "disconnected")
  /\ UNCHANGED <<memory, disk, form, lifecycle, uploader, google, off, formed, faulted, events>>

SaveDisconnected(h) ==
  /\ At(h, "disconnected")
  /\ memory' = [memory EXCEPT !.enabled = FALSE]
  /\ disk' = memory'
  /\ off' = TRUE
  /\ Finish(h)
  /\ UNCHANGED <<tokens, form, tokenLock, uploader, google, ended, formed, faulted, events>>

-----------------------------------------------------------------------------
(***************************************************************************)
(* Uploads: by hand, after a connection, or after a report when sync is    *)
(* enabled.  Every request asks for a token, and a rejected token is       *)
(* refreshed once.                                                         *)
(***************************************************************************)
BeginUpload(u) ==
  /\ uploader[u].pc = "idle"
  /\ uploader' = [uploader EXCEPT ![u] = [NoUpload EXCEPT !.pc = "token"]]
  /\ UNCHANGED <<tokens, memory, disk, form, locks, handler, google, ghosts, events>>

UseToken(u) ==
  /\ uploader[u].pc = "token" /\ tokenLock = None
  /\ tokens.access # None /\ tokens.fresh
  /\ uploader' = [uploader EXCEPT ![u] = [NoUpload EXCEPT !.pc = "use", !.token = tokens.access]]
  /\ UNCHANGED <<tokens, memory, disk, form, locks, handler, google, ghosts, events>>

MustRefresh(u) ==
  \/ uploader[u].pc = "force"
  \/ uploader[u].pc = "token" /\ (tokens.access = None \/ ~tokens.fresh)

Unserialized(u) == UNCHANGED tokenLock

Serialized(u) == tokenLock' = u

BeginRefresh(u) ==
  /\ MustRefresh(u) /\ tokenLock = None
  /\ IF tokens.refresh = None
     THEN uploader' = [uploader EXCEPT ![u] = NoUpload] /\ UNCHANGED tokenLock
     ELSE /\ Serialized(u)
          /\ uploader' = [uploader EXCEPT ![u] = [pc |-> "refresh", token |-> None, read |-> tokens]]
  /\ UNCHANGED <<tokens, memory, disk, form, lifecycle, handler, google, ghosts, events>>

Refresh(u) ==
  /\ uploader[u].pc = "refresh"
  /\ tokens' \in RefreshOf(uploader[u].read)
  /\ uploader' = [uploader EXCEPT ![u] =
                    IF tokens'.access = None THEN NoUpload
                    ELSE [NoUpload EXCEPT !.pc = "use", !.token = tokens'.access]]
  /\ tokenLock' = None
  /\ UNCHANGED <<memory, disk, form, lifecycle, handler, google, ghosts, events>>

RefreshFails(u) ==
  /\ uploader[u].pc = "refresh"
  /\ uploader' = [uploader EXCEPT ![u] = NoUpload]
  /\ tokenLock' = None
  /\ UNCHANGED <<tokens, memory, disk, form, lifecycle, handler, google, ghosts, events>>

\* A request goes out: there are more, or it was the last, or the token is rejected.
Request(u) ==
  /\ uploader[u].pc = "use"
  /\ \E pc \in IF uploader[u].token \in live THEN {"token", "idle"} ELSE {"force"} :
       uploader' = [uploader EXCEPT ![u] = [NoUpload EXCEPT !.pc = pc]]
  /\ UNCHANGED <<tokens, memory, disk, form, locks, handler, google, ghosts, events>>

-----------------------------------------------------------------------------
(***************************************************************************)
(* Forms replace the whole document, with what the browser read.  Tokens   *)
(* expire, the user revokes, the process dies.                             *)
(***************************************************************************)
ReadForm ==
  /\ form' = memory /\ form' # form
  /\ UNCHANGED <<tokens, memory, disk, locks, handler, uploader, google, ghosts, events>>

SubmitForm ==
  /\ OneMore
  /\ memory' = form /\ disk' = form
  /\ formed' = TRUE
  /\ UNCHANGED <<tokens, form, locks, handler, uploader, google, ended, off, faulted>>

Expire ==
  /\ tokens.fresh /\ OneMore
  /\ tokens' = [tokens EXCEPT !.fresh = FALSE]
  /\ UNCHANGED <<memory, disk, form, locks, handler, uploader, google, ghosts>>

UserRevokes(g) ==
  /\ g \in live /\ OneMore
  /\ live' = live \ {g}
  /\ UNCHANGED <<tokens, memory, disk, form, locks, handler, uploader, asked, exchanged, ghosts>>

Restart ==
  /\ Fault
  /\ memory' = disk
  /\ lifecycle' = None /\ tokenLock' = None
  /\ handler' = [h \in Handlers |-> NoRequest]
  /\ uploader' = [u \in Uploaders |-> NoUpload]
  /\ UNCHANGED <<tokens, disk, form, google, ended, off, formed>>

-----------------------------------------------------------------------------
Init ==
  /\ tokens = Disconnected
  /\ memory = [enabled |-> FALSE, folder |-> None] /\ disk = memory /\ form = memory
  /\ lifecycle = None /\ tokenLock = None
  /\ handler = [h \in Handlers |-> NoRequest]
  /\ uploader = [u \in Uploaders |-> NoUpload]
  /\ asked = 0 /\ exchanged = [k \in Consents |-> 0] /\ live = {}
  /\ ended = 0 /\ off = FALSE /\ formed = FALSE /\ faulted = FALSE
  /\ events = 0

HandlerStep(h) ==
  \/ AskConsent(h) \/ \E k \in Consents : Callback(h, k)
  \/ RefuseState(h) \/ ConsumeState(h) \/ ExchangeCode(h) \/ ExchangeFails(h)
  \/ FindFolder(h) \/ SaveConnected(h) \/ SaveFails(h)
  \/ Disconnect(h) \/ Revoke(h) \/ ClearTokens(h) \/ SaveDisconnected(h)

UploaderStep(u) ==
  \/ BeginUpload(u) \/ UseToken(u) \/ BeginRefresh(u)
  \/ Refresh(u) \/ RefreshFails(u) \/ Request(u)

Next ==
  \/ \E h \in Handlers : HandlerStep(h)
  \/ \E u \in Uploaders : UploaderStep(u)
  \/ ReadForm \/ SubmitForm \/ Expire \/ Restart
  \/ \E g \in Consents : UserRevokes(g)

Spec == Init /\ [][Next]_vars

-----------------------------------------------------------------------------
\* Every variable has its type, and a lock is held where the code holds it.
LinkTypeOK ==
  /\ tokens \in Tokens /\ {memory, disk, form} \subseteq Sync
  /\ lifecycle \in Handlers \union {None} /\ tokenLock \in Threads \union {None}
  /\ handler \in [Handlers -> Handler] /\ uploader \in [Uploaders -> Uploader]
  /\ \A h \in Handlers : lifecycle = h <=> ~At(h, "idle")
  /\ \A h \in Handlers : tokenLock = h <=> (At(h, "contact") \/ At(h, "clear"))
  /\ \A u \in Uploaders : tokenLock = u <=> uploader[u].pc = "refresh"
  /\ asked \in 0..MaxConsents /\ exchanged \in [Consents -> Nat] /\ live \subseteq Consents
  /\ ended \in 0..asked /\ events \in 0..MaxEvents
  /\ off \in BOOLEAN /\ formed \in BOOLEAN /\ faulted \in BOOLEAN

\* An access token is never kept beside the refresh token of another account.
TokensOfOneAccount ==
  tokens.access # None /\ tokens.refresh # None => tokens.access = tokens.refresh

\* The code of a consent is sent to Google at most once, replayed callbacks,
\* failures and crashes included.
ConsentsAreSingleUse == \A k \in Consents : exchanged[k] <= 1

\* A disconnection ends every consent asked for before it: no callback and no
\* refresh under way brings its tokens back.
DisconnectionIsFinal ==
  \A g \in {tokens.pending, tokens.refresh, tokens.access} \ {None} : g > ended

\* After an answered disconnection sync stays off, in memory and on disk, until
\* a later consent completes or a form switches it on.
SyncStaysOff == off /\ ~formed => ~memory.enabled /\ ~disk.enabled

\* Reports are not sent to the folder of another account than the connected one,
\* unless a save raised, the process died, or a form restored an older folder.
SyncMatchesAccount ==
  lifecycle = None /\ ~formed /\ ~faulted /\ memory.enabled /\ tokens.access # None =>
    memory.folder = tokens.access
=============================================================================
