------------------------------- MODULE WebDav -------------------------------
(***************************************************************************)
(* The WebDAV client of the backups (core/backup.rs, cmd/webdav.rs).       *)
(*                                                                         *)
(* A client is made for each operation, of the account in the settings,    *)
(* and kept; saving another account, or a failure, forgets all of them.    *)
(***************************************************************************)
EXTENDS Naturals

CONSTANTS
  DavCallers,   \* commands of the WebDAV page, under way
  DavOps,       \* upload, download, list, delete
  MaxAccounts   \* bound: accounts saved

VARIABLES
  account,               \* the account in the settings
  accountSave,           \* the last save of one: "done", "saving" or "failed"
  davConfig, davClients, \* WebDavClient.config and clients; 0 for none
  davPc, davOp, davUses, \* a command: where, for which operation, which account
  davLate,               \* history: commands an account was saved during
  davMixed               \* history: what is noted or kept came from such a one

davVars == <<account, accountSave, davConfig, davClients, davPc, davOp, davUses,
             davLate, davMixed>>

DavInit ==
  /\ account = 1 /\ accountSave = "done"
  /\ davConfig = 0 /\ davClients = [op \in DavOps |-> 0]
  /\ davPc = [c \in DavCallers |-> "idle"]
  /\ davOp = [c \in DavCallers |-> CHOOSE op \in DavOps : TRUE]
  /\ davUses = [c \in DavCallers |-> 0]
  /\ davLate = {} /\ davMixed = FALSE

DavTo(c, label) == davPc' = [davPc EXCEPT ![c] = label]

-----------------------------------------------------------------------------
(* save_webdav_config: the settings are changed, written to their file and *)
(* only then is the client reset.                                          *)

ChangeAccount ==
  /\ account < MaxAccounts /\ accountSave # "saving"
  /\ account' = account + 1 /\ accountSave' = "saving"
  /\ UNCHANGED <<davConfig, davClients, davPc, davOp, davUses, davLate, davMixed>>

\* reset()
Forget ==
  davConfig' = 0 /\ davClients' = [op \in DavOps |-> 0] /\ davMixed' = FALSE

\* Mutant of AfterSave: the client is kept.
KeepClient == UNCHANGED <<davConfig, davClients, davMixed>>

AfterSave == Forget

SaveAccount ==
  /\ accountSave = "saving" /\ accountSave' = "done"
  /\ AfterSave
  /\ davLate' = {c \in DavCallers : davPc[c] # "idle"}
  /\ UNCHANGED <<account, davPc, davOp, davUses>>

\* The file cannot be written: the client stays.
SaveAccountFails ==
  /\ accountSave = "saving" /\ accountSave' = "failed"
  /\ UNCHANGED <<account, davConfig, davClients, davPc, davOp, davUses, davLate,
                 davMixed>>

-----------------------------------------------------------------------------
(* get_client                                                              *)

\* There is no client of the operation: a new one is of the account that was
\* noted, or of the settings, which is then noted, whatever has been meanwhile.
CallDav(c, op) ==
  /\ davPc[c] = "idle" /\ davClients[op] = 0
  /\ davOp' = [davOp EXCEPT ![c] = op]
  /\ davUses' = [davUses EXCEPT ![c] = IF davConfig # 0 THEN davConfig ELSE account]
  /\ davLate' = IF davMixed THEN davLate \union {c} ELSE davLate \ {c}
  /\ DavTo(c, IF davConfig # 0 THEN "mkcol" ELSE "note")
  /\ UNCHANGED <<account, accountSave, davConfig, davClients, davMixed>>

NoteAccount(c) ==
  /\ davPc[c] = "note"
  /\ davConfig' = davUses[c]
  /\ davMixed' = (davMixed \/ c \in davLate)
  /\ DavTo(c, "mkcol")
  /\ UNCHANGED <<account, accountSave, davClients, davOp, davUses, davLate>>

\* The folder is made, or there already, and the client is kept.
KeepNewClient(c) ==
  /\ davPc[c] = "mkcol"
  /\ davClients' = [davClients EXCEPT ![davOp[c]] = davUses[c]]
  /\ davMixed' = (davMixed \/ c \in davLate)
  /\ DavTo(c, "idle")
  /\ UNCHANGED <<account, accountSave, davConfig, davOp, davUses, davLate>>

DavFails(c) ==
  /\ davPc[c] = "mkcol"
  /\ Forget
  /\ DavTo(c, "idle")
  /\ UNCHANGED <<account, accountSave, davOp, davUses, davLate>>

\* An upload that fails twice.
UploadFails ==
  /\ "upload" \in DavOps /\ davClients["upload"] # 0
  /\ Forget
  /\ UNCHANGED <<account, accountSave, davPc, davOp, davUses, davLate>>

Dav(c) ==
  \/ \E op \in DavOps : CallDav(c, op)
  \/ NoteAccount(c) \/ KeepNewClient(c) \/ DavFails(c)

DavNext ==
  \/ ChangeAccount \/ SaveAccount \/ SaveAccountFails \/ UploadFails
  \/ \E c \in DavCallers : Dav(c)

DavSpec == DavInit /\ [][DavNext]_davVars

-----------------------------------------------------------------------------
(* Properties.                                                             *)

\* Once an account is saved, a client that is kept is one of that account,
\* unless it was being made, or what it was made of was noted, by a command the
\* save came between.
ClientIsCurrent ==
  accountSave = "done" /\ ~davMixed =>
    \A op \in DavOps : davClients[op] \in {0, account}
=============================================================================
