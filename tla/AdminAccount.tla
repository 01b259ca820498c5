--------------------------- MODULE AdminAccount ---------------------------
(***************************************************************************)
(* The administrator's account (internal/auth/admin.go) as the admin API   *)
(* uses it (internal/admin/api.go): first set-up, log-in, change of        *)
(* password and requests with a token, concurrent and over restarts of a   *)
(* program whose configuration may hold an initial password.  Reading the  *)
(* row, hashing (slow on purpose) and writing are separate steps, and each *)
(* read and write may fail.  NeedsSetup takes a row it cannot read for one *)
(* that is not there.                                                      *)
(***************************************************************************)
EXTENDS Naturals, FiniteSets

CONSTANTS
    Admins,         \* requests to the admin API
    Passwords,
    NoPassword,
    MaxStarts       \* bound: restarts

ASSUME AccountAssumption == NoPassword \notin Passwords

VARIABLES
    configured, \* admin.password of config.yaml, or NoPassword
    password,   \* the row of the table admin
    secret,     \* jwtSecret: drawn at each start
    tokens,     \* by which secret each client's token is signed, 0 for none
    call,       \* the requests
    \* history
    past,       \* passwords stored at some time since the request began
    unread,     \* set-ups that go on because the row could not be read
    chosen,     \* the password a set-up or change stored last
    blind       \* a start since then could not read the row

history == <<past, unread, chosen, blind>>
adminVars == <<configured, password, secret, tokens, call, history>>
Free == [kind |-> "none", pc |-> "idle", old |-> NoPassword, new |-> NoPassword]

\* NeedsSetup of Start: the configured password is stored when the row holds
\* none, or is not read.  (A Start that cannot store it gives up.)
Started(p, read) ==
    IF configured # NoPassword /\ (p = NoPassword \/ ~read) THEN configured ELSE p

AccountInit ==
    /\ configured \in Passwords \cup {NoPassword}
    /\ \E p \in Passwords \cup {NoPassword}, read \in BOOLEAN : password = Started(p, read)
    /\ secret = 1 /\ tokens = [a \in Admins |-> 0]
    /\ call = [a \in Admins |-> Free]
    /\ past = [a \in Admins |-> {}] /\ unread = {}
    /\ chosen = NoPassword /\ blind = FALSE

Call(a, kind, old, new) ==
    /\ call[a].pc = "idle"
    /\ call' = [call EXCEPT ![a] = [kind |-> kind, pc |-> "read", old |-> old, new |-> new]]
    /\ past' = [past EXCEPT ![a] = {password}] /\ unread' = unread \ {a}
    /\ UNCHANGED <<configured, password, secret, tokens, chosen, blind>>

At(a, kind, pc) == call[a].kind = kind /\ call[a].pc = pc
Goto(a, pc) == call' = [call EXCEPT ![a].pc = pc]
Return(a) == call' = [call EXCEPT ![a] = Free]

\* The row as every request in progress may see it from now on.
Store(p) ==
    /\ password' = p
    /\ past' = [a \in Admins |-> past[a] \cup {p}]
    /\ chosen' = p /\ blind' = FALSE
    /\ UNCHANGED unread

\* The statement fails and the request ends with an error.
NotStored(a) == Return(a) /\ UNCHANGED <<password, history>>

\* A bug to catch: setup does not ask whether it is needed.
SetupUnasked(a) ==
    /\ At(a, "setup", "read")
    /\ Goto(a, "write")
    /\ UNCHANGED <<configured, password, secret, tokens, history>>

\* handleSetup: NeedsSetup, then readJSON and the hash.
SetupAsked(a) ==
    /\ At(a, "setup", "read")
    /\ \/ password = NoPassword /\ Goto(a, "write") /\ UNCHANGED unread
       \/ password # NoPassword /\ Return(a) /\ UNCHANGED unread
       \/ Goto(a, "write") /\ unread' = unread \cup {a}     \* the read fails
    /\ UNCHANGED <<configured, password, secret, tokens, past, chosen, blind>>

\* INSERT OR REPLACE.
SetupStored(a) ==
    /\ At(a, "setup", "write")
    /\ \/ /\ Store(call[a].new)
          /\ call' = [call EXCEPT ![a].kind = "login", ![a].pc = "read", ![a].old = call[a].new]
       \/ NotStored(a)
    /\ UNCHANGED <<configured, secret, tokens>>

\* Login: the row is read, if it can be, the password hashed, a token signed.
LoginRead(a) ==
    /\ At(a, "login", "read")
    /\ \/ password = call[a].old /\ Goto(a, "sign")
       \/ Return(a)
    /\ UNCHANGED <<configured, password, secret, tokens, history>>

LoginSigned(a) ==
    /\ At(a, "login", "sign")
    /\ tokens' = [tokens EXCEPT ![a] = secret]
    /\ Return(a)
    /\ UNCHANGED <<configured, password, secret, history>>

\* ChangePassword behind requireAuth: VerifyToken, then the old password.
ChangeVerified(a) ==
    /\ At(a, "change", "read")
    /\ \/ /\ tokens[a] = secret /\ password = call[a].old /\ password # NoPassword
          /\ Goto(a, "write")
       \/ Return(a)
    /\ UNCHANGED <<configured, password, secret, tokens, history>>

ChangeStored(a) ==
    /\ At(a, "change", "write")
    /\ \/ Store(call[a].new) /\ Return(a)
       \/ NotStored(a)
    /\ UNCHANGED <<configured, secret, tokens>>

\* The program ends, at any step of any request, and starts again.
NewRun ==
    /\ secret < MaxStarts /\ secret' = secret + 1
    /\ call' = [a \in Admins |-> Free]
    /\ past' = [a \in Admins |-> {}] /\ unread' = {}
    /\ UNCHANGED <<configured, tokens, chosen>>

\* A bug to catch: Start stores the password of the configuration each time.
AccountRestartResets ==
    /\ NewRun
    /\ password' = configured /\ UNCHANGED blind

AccountRestart ==
    /\ NewRun
    /\ \E read \in BOOLEAN :
         /\ password' = Started(password, read)
         /\ blind' = (blind \/ ~read)

AccountNext ==
    \/ \E a \in Admins, p, q \in Passwords :
         \/ Call(a, "setup", NoPassword, p) \/ Call(a, "login", p, NoPassword)
         \/ Call(a, "change", p, q)
    \/ \E a \in Admins :
         \/ SetupAsked(a) \/ SetupStored(a) \/ LoginRead(a) \/ LoginSigned(a)
         \/ ChangeVerified(a) \/ ChangeStored(a)
    \/ AccountRestart

AccountSpec == AccountInit /\ [][AccountNext]_adminVars

\* The account passes only to somebody who gave a password it had at some
\* time during the request, or who found it without one; except that a
\* set-up whose NeedsSetup could not read the row passes it to whoever asked.
\* A start gives it back to the configuration when it is without a password,
\* or when the row could not be read.  (Two set-ups, or two changes, that
\* overlap are allowed for: the second one to write wins.)
AccountChange ==
    \/ password' = password
    \/ \E a \in Admins :
         /\ call[a].pc = "write" /\ password' = call[a].new
         /\ call[a].kind = "setup" => NoPassword \in past[a] \/ a \in unread
         /\ call[a].kind = "change" => call[a].old \in past[a] \ {NoPassword}
    \/ /\ secret' # secret /\ password' = configured
       /\ password = NoPassword \/ blind'
AccountIsHandedOver == [][AccountChange]_adminVars

\* The password a set-up or a change stored last is the password, through
\* failing reads and writes, requests in progress and restarts, until
\* a start that cannot read the row puts the configured one back.
ChosenStays ==
    chosen # NoPassword =>
        password = chosen \/ (blind /\ password = configured /\ configured # NoPassword)
=============================================================================
