---------------------------- MODULE ServerAdmin ----------------------------
(***************************************************************************)
(* Who may do what on a running server, over its restarts: node tokens     *)
(* (nodes.rs), administrator sessions and the node operations (admin.rs),  *)
(* and settings.json with its copy in memory (settings.rs).                *)
(*                                                                         *)
(* A handler takes a lock to find out who is asking, lets it go, and takes *)
(* another to do the work; a save of the settings waits for reference      *)
(* prices before it takes its lock.  The handlers under way are therefore  *)
(* part of the state, and steps of several of them interleave.             *)
(***************************************************************************)
EXTENDS ServerStart, SettingsDocument

CONSTANTS
  Handlers,            \* requests the server serves at a time
  Tokens, NoToken,     \* generated tokens; the empty token_hash
  Sessions,            \* generated session ids
  Bodies,              \* documents an administrator may save
  None, Partial, Boot, Idle,
  MaxChanges           \* bound on node edits and saves of the settings together

ASSUME TokenAssumption == NoToken \notin Tokens \cup Uuids
ASSUME SettingsAssumption ==
  /\ Bodies \subseteq Document(2)
  /\ {None, Partial} \cap Document(2) = {} /\ None # Partial
  /\ None \notin {"write", "rename", "cache"}
  /\ Boot \notin Handlers /\ None \notin Handlers \cup {Boot}
ASSUME ChangeAssumption == MaxChanges \in Nat

VARIABLES
  token,     \* nodes.token_hash
  minted,    \* the node a token was generated for, or NoToken
  retired,   \* tokens that were revoked or replaced
  session,   \* admin_sessions: "unused", "live", "expired", or "ended" when removed
  request,   \* what each handler is about
  accepted,  \* <<token, node>> of the uploads that were stored
  file,      \* settings.json: None, a document, or Partial while half written
  temp,      \* a temporary file left beside it
  cache,     \* the settings in memory, or None
  save,      \* who is writing the settings, what, and how far
  due,       \* the settings last acknowledged, and those stored since
  puts

adminVars == <<token, minted, retired, session, request, accepted>>
settingsVars == <<file, temp, cache, save, due, puts>>
allVars == <<vars, adminVars, settingsVars>>

NoSave == [by |-> None, value |-> None, step |-> None]
Saves == [by : Handlers \cup {Boot}, value : Document(2), step : {"write", "rename", "cache"}]

Request ==
  {Idle}
    \cup [kind : {"admin"}, session : Sessions]
    \cup [kind : {"client"}, node : Uuids, token : Tokens \cup {NoToken}]
    \cup [kind : {"put"}, value : Document(2)]

AdminInit ==
  /\ Init
  /\ token = [u \in Uuids |-> NoToken]
  /\ minted = [t \in Tokens |-> NoToken]
  /\ retired = {}
  /\ session = [s \in Sessions |-> "unused"]
  /\ request = [h \in Handlers |-> Idle]
  /\ accepted = {}
  /\ file = None /\ temp = FALSE /\ cache = None /\ save = NoSave /\ due = {}
  /\ puts = 0

(* serve opens the listener when the database is ready and the settings are read. *)
Serving == pc = "up" /\ cache # None

Answer(h) == request' = [request EXCEPT ![h] = Idle]

-----------------------------------------------------------------------------
(* Clients: authenticated_node, then the work under the lock taken again.  *)

(* Mutant: any token in use lets a request in, for the node it names.     *)
MutantNamedNode(h, t) ==
  /\ Serving /\ request[h] = Idle
  /\ t # NoToken
  /\ \E u, v \in Known :
       /\ token[v] = t
       /\ request' = [request EXCEPT ![h] = [kind |-> "client", node |-> u, token |-> t]]
  /\ UNCHANGED <<vars, token, minted, retired, session, accepted, settingsVars>>

ClientCheck(h, t) ==
  /\ Serving /\ request[h] = Idle
  /\ t # NoToken
  /\ \E u \in Known :
       /\ token[u] = t
       /\ request' = [request EXCEPT ![h] = [kind |-> "client", node |-> u, token |-> t]]
  /\ UNCHANGED <<vars, token, minted, retired, session, accepted, settingsVars>>

ClientWork(h) ==
  /\ Serving /\ request[h] # Idle /\ request[h].kind = "client"
  /\ LET u == request[h].node
     IN /\ \/ \E a \in Apps, q \in Requests : UploadEvent(u, a, q)
           \/ \E a \in Apps : UploadRollup(u, a)
           \/ BeginGeneration(u)
        /\ accepted' = accepted \cup {<<request[h].token, u>>}
  /\ Answer(h)
  /\ UNCHANGED <<token, minted, retired, session, settingsVars>>

-----------------------------------------------------------------------------
(* Administrators.                                                         *)

Login(s) ==
  /\ Serving /\ session[s] = "unused"
  /\ session' = [session EXCEPT ![s] = "live"]
  /\ UNCHANGED <<vars, token, minted, retired, request, accepted, settingsVars>>

(* SESSION_TTL has passed; the entry stays until it is presented. *)
Expire(s) ==
  /\ session[s] = "live"
  /\ session' = [session EXCEPT ![s] = "expired"]
  /\ UNCHANGED <<vars, token, minted, retired, request, accepted, settingsVars>>

Logout(s) ==
  /\ Serving /\ session[s] \in {"live", "expired"}
  /\ session' = [session EXCEPT ![s] = "ended"]
  /\ UNCHANGED <<vars, token, minted, retired, request, accepted, settingsVars>>

(* Mutant: the expiry of a stored session is not looked at. *)
MutantKeepExpired(h, s) ==
  /\ Serving /\ request[h] = Idle
  /\ session[s] \in {"live", "expired"}
  /\ request' = [request EXCEPT ![h] = [kind |-> "admin", session |-> s]]
  /\ UNCHANGED <<vars, token, minted, retired, session, accepted, settingsVars>>

(* require_admin: a session that has expired is removed and refused. *)
AdminCheck(h, s) ==
  /\ Serving /\ request[h] = Idle
  /\ \/ /\ session[s] = "live"
        /\ request' = [request EXCEPT ![h] = [kind |-> "admin", session |-> s]]
        /\ UNCHANGED session
     \/ /\ session[s] = "expired"
        /\ session' = [session EXCEPT ![s] = "ended"]
        /\ UNCHANGED request
  /\ UNCHANGED <<vars, token, minted, retired, accepted, settingsVars>>

ChangesGoOn == edits + puts < MaxChanges

Admitted(h) == Serving /\ request[h] # Idle /\ request[h].kind = "admin"

Mint(u, t) ==
  /\ minted[t] = NoToken
  /\ minted' = [minted EXCEPT ![t] = u]
  /\ token' = [token EXCEPT ![u] = t]
  /\ retired' = retired \cup ({token[u]} \ {NoToken})

CreateNode(h, u, n, t) ==
  /\ Admitted(h) /\ nodes[u] = Absent /\ ChangesGoOn
  /\ NameNode(u, n)
  /\ Mint(u, t)
  /\ Answer(h)
  /\ UNCHANGED <<session, accepted, settingsVars>>

RenameNode(h, u, n) ==
  /\ Admitted(h) /\ nodes[u] # Absent /\ ChangesGoOn
  /\ NameNode(u, n)
  /\ Answer(h)
  /\ UNCHANGED <<token, minted, retired, session, accepted, settingsVars>>

RegenerateToken(h, u, t) ==
  /\ Admitted(h) /\ nodes[u] # Absent
  /\ Mint(u, t)
  /\ Answer(h)
  /\ UNCHANGED <<vars, session, accepted, settingsVars>>

RevokeToken(h, u) ==
  /\ Admitted(h) /\ nodes[u] # Absent
  /\ token' = [token EXCEPT ![u] = NoToken]
  /\ retired' = retired \cup ({token[u]} \ {NoToken})
  /\ Answer(h)
  /\ UNCHANGED <<vars, minted, session, accepted, settingsVars>>

(* A name that is taken (409), a node that is unknown (404), or a request  *)
(* that only reads: lists, previews, sessions.                             *)
AnswerAdmin(h) ==
  /\ Admitted(h)
  /\ Answer(h)
  /\ UNCHANGED <<vars, token, minted, retired, session, accepted, settingsVars>>

-----------------------------------------------------------------------------
(* The settings.                                                           *)

(* admin_put up to the first await: the body is normalized.                *)
PutSettings(h, body) ==
  /\ Admitted(h) /\ ChangesGoOn
  /\ Acceptable(body)
  /\ puts' = puts + 1
  /\ request' = [request EXCEPT ![h] = [kind |-> "put", value |-> Normalize(body)]]
  /\ UNCHANGED <<vars, token, minted, retired, session, accepted,
                 file, temp, cache, save, due>>

(* The lock of the settings is held from here to FinishSave or FailSave.   *)
BeginSave(by, v) ==
  /\ save = NoSave
  /\ save' = [by |-> by, value |-> v, step |-> "write"]
  /\ UNCHANGED <<vars, adminVars, file, temp, cache, due, puts>>

(* The awaits are over: the catalogue had prices for some of the models    *)
(* (found), or could not be reached.                                       *)
SavePut(h) ==
  /\ Serving /\ request[h] # Idle /\ request[h].kind = "put"
  /\ save.by # h
  /\ \E found \in SUBSET Unpriced(request[h].value) :
       BeginSave(h, WithPrices(request[h].value, found))

(* settings::read when serve starts: the file, or a new one with defaults; *)
(* a file that is malformed or not acceptable ends the start.              *)
ReadSettings ==
  /\ pc = "up" /\ cache = None /\ save = NoSave
  /\ \/ /\ file # None /\ file # Partial /\ Acceptable(file)
        /\ cache' = Normalize(file)
        /\ UNCHANGED <<vars, save>>
     \/ /\ file = Partial \/ (file # None /\ ~Acceptable(file))
        /\ pc' = "failed"
        /\ UNCHANGED <<db, wrote, stops, uploads, edits, cache, save>>
     \/ /\ file = None
        /\ save' = [by |-> Boot, value |-> DefaultSettings, step |-> "write"]
        /\ UNCHANGED <<vars, cache>>
  /\ UNCHANGED <<adminVars, file, temp, due, puts>>

(* Mutant: the file is written in place. *)
MutantInPlace ==
  /\ save.step = "write"
  /\ file' = Partial
  /\ save' = [save EXCEPT !.step = "rename"]
  /\ UNCHANGED <<vars, adminVars, temp, cache, due, puts>>

(* persist: a temporary file is written and synced, then renamed. *)
WriteTemp ==
  /\ save.step = "write"
  /\ temp' = TRUE
  /\ save' = [save EXCEPT !.step = "rename"]
  /\ UNCHANGED <<vars, adminVars, file, cache, due, puts>>

RenameTemp ==
  /\ save.step = "rename"
  /\ file' = save.value
  /\ temp' = FALSE
  /\ due' = due \cup {save.value}
  /\ save' = [save EXCEPT !.step = "cache"]
  /\ UNCHANGED <<vars, adminVars, cache, puts>>

Release(by) == save' = NoSave /\ IF by = Boot THEN UNCHANGED request ELSE Answer(by)

FinishSave ==
  /\ save.step = "cache"
  /\ cache' = save.value
  /\ due' = {save.value}
  /\ Release(save.by)
  /\ UNCHANGED <<vars, token, minted, retired, session, accepted, file, temp, puts>>

(* An error of the file system: the temporary file is removed, the answer  *)
(* is an error, and memory keeps the old settings.  At the start it ends   *)
(* the process (Stop).                                                     *)
FailSave ==
  /\ save.step \in {"write", "rename"} /\ save.by # Boot
  /\ temp' = FALSE
  /\ Release(save.by)
  /\ UNCHANGED <<vars, token, minted, retired, session, accepted, file, cache, due, puts>>

-----------------------------------------------------------------------------
(* Sessions, the settings in memory and the requests under way are lost    *)
(* when the process stops.                                                 *)
StopServer ==
  /\ Stop
  /\ session' = [s \in Sessions |-> IF session[s] = "unused" THEN "unused" ELSE "ended"]
  /\ request' = [h \in Handlers |-> Idle]
  /\ cache' = None
  /\ save' = NoSave
  /\ UNCHANGED <<token, minted, retired, accepted, file, temp, due, puts>>

StartServer == Start /\ UNCHANGED <<adminVars, settingsVars>>

AdminNext ==
  \/ StartServer \/ StopServer \/ ReadSettings
  \/ \E h \in Handlers :
       \/ \E t \in Tokens \cup {NoToken} : ClientCheck(h, t)
       \/ ClientWork(h)
       \/ \E s \in Sessions : AdminCheck(h, s)
       \/ \E u \in Uuids, n \in Names, t \in Tokens : CreateNode(h, u, n, t)
       \/ \E u \in Uuids, n \in Names : RenameNode(h, u, n)
       \/ \E u \in Uuids, t \in Tokens : RegenerateToken(h, u, t)
       \/ \E u \in Uuids : RevokeToken(h, u)
       \/ AnswerAdmin(h)
       \/ \E body \in Bodies : PutSettings(h, body)
       \/ SavePut(h)
  \/ \E s \in Sessions : Login(s) \/ Expire(s) \/ Logout(s)
  \/ WriteTemp \/ RenameTemp \/ FinishSave \/ FailSave

AdminSpec == AdminInit /\ [][AdminNext]_allVars

-----------------------------------------------------------------------------
AdminTypeOK ==
  /\ TypeOK
  /\ token \in [Uuids -> Tokens \cup {NoToken}]
  /\ minted \in [Tokens -> Uuids \cup {NoToken}]
  /\ retired \subseteq Tokens
  /\ session \in [Sessions -> {"unused", "live", "expired", "ended"}]
  /\ request \in [Handlers -> Request]
  /\ accepted \subseteq (Tokens \cup {NoToken}) \X Uuids
  /\ file \in Document(2) \cup {None, Partial}
  /\ temp \in BOOLEAN /\ cache \in Document(2) \cup {None}
  /\ save \in Saves \cup {NoSave}
  /\ \A d \in due : d \in Document(2)
  /\ puts \in Nat /\ puts <= MaxChanges

(* What a client stored is under the node its token was generated for, and *)
(* a node whose token_hash is empty, as after nodes::ensure_schema has     *)
(* made its record, stores nothing: not for an empty token either.         *)
StoredUnderOwnNode ==
  /\ \A p \in accepted : p[1] \in Tokens /\ minted[p[1]] = p[2]
  /\ \A u \in Known : token[u] # NoToken => minted[token[u]] = u

(* A token that was revoked or replaced, and a session that was logged     *)
(* out, has expired or was opened before a restart, lets no further        *)
(* request in; only those that were let in before still do their work.     *)
EndedStaysOut ==
  [][\A h \in Handlers :
       request[h] = Idle /\ request'[h] # Idle =>
         \/ request'[h].kind = "client" /\ request'[h].token \notin retired
         \/ request'[h].kind = "admin" /\ session[request'[h].session] = "live"]_allVars

(* settings.json is never half written; it holds the settings that were    *)
(* last acknowledged, or later ones whose save was under way, through every*)
(* stop of the process; memory agrees with it whenever nobody saves; and   *)
(* what was saved, prices filled in after the checks included, is accepted *)
(* and read back unchanged by the next start.                              *)
SettingsKept ==
  /\ file # Partial
  /\ due # {} => file \in due
  /\ save = NoSave /\ cache # None => cache = file
  /\ file \notin {None, Partial} => Acceptable(file) /\ Normalize(file) = file

-----------------------------------------------------------------------------
(* What the proofs carry from step to step.                                *)

Asks(h) == request[h] # Idle /\ request[h].kind = "client"

(* A token is generated once, for one node, and retired once.              *)
TokensOfOneNode ==
  /\ \A u \in Uuids : token[u] # NoToken => minted[token[u]] = u
  /\ \A u \in Uuids : token[u] \notin retired
  /\ \A t \in retired : minted[t] # NoToken

(* Who was let in was let in for its own node, which still exists.         *)
AskedForOwnNode ==
  \A h \in Handlers :
    Asks(h) => /\ request[h].node \in Known
               /\ request[h].token \in Tokens
               /\ minted[request[h].token] = request[h].node

AcceptedForOwnNode ==
  \A p \in accepted : p[1] \in Tokens /\ p[2] \in Uuids /\ minted[p[1]] = p[2]

AdminInv ==
  /\ StartInv
  /\ token \in [Uuids -> Tokens \cup {NoToken}]
  /\ minted \in [Tokens -> Uuids \cup {NoToken}]
  /\ retired \subseteq Tokens
  /\ request = [h \in Handlers |-> request[h]]
  /\ TokensOfOneNode /\ AskedForOwnNode /\ AcceptedForOwnNode

(* What a start accepts and reads back as it is.                           *)
Settled(d) == d \in Document(2) /\ Acceptable(d) /\ Normalize(d) = d

(* Wherever settings are kept or under way, they are settled; memory falls *)
(* behind the file only between the rename and the end of a save.          *)
RequestsSettled ==
  \A h \in Handlers :
    /\ request[h] \in Request
    /\ request[h] # Idle /\ request[h].kind = "put" => Settled(request[h].value)

KeptSettled ==
  /\ save # NoSave => save \in Saves /\ Settled(save.value)
  /\ file # None => Settled(file)
  /\ cache # None => Settled(cache)
  /\ due \subseteq Document(2)
  /\ due # {} => file \in due
  /\ IF save.step = "cache" THEN file = save.value ELSE cache # None => cache = file

SettingsInv ==
  /\ temp \in BOOLEAN /\ puts \in Nat /\ puts <= MaxChanges
  /\ session \in [Sessions -> {"unused", "live", "expired", "ended"}]
  /\ accepted \subseteq Tokens \X Uuids
  /\ RequestsSettled /\ KeptSettled

ServerInv == AdminInv /\ SettingsInv /\ BoundsFirst /\ StartSucceeds

=============================================================================
