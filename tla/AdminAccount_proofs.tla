----------------------- MODULE AdminAccount_proofs -----------------------
(***************************************************************************)
(* Proofs about AdminAccount, for any number of requests, passwords and    *)
(* restarts, with any reads and writes failing: the account is handed over *)
(* as AccountIsHandedOver allows and not otherwise, and the password stored *)
(* last stays, but for a start that cannot read it.                        *)
(***************************************************************************)
EXTENDS AdminAccount, TLAPS

Row == Passwords \cup {NoPassword}
Calls == [kind : {"none", "setup", "login", "change"},
          pc : {"idle", "read", "write", "sign"}, old : Row, new : Row]

AccountTypeOK ==
    /\ configured \in Row /\ password \in Row /\ secret \in Nat
    /\ call \in [Admins -> Calls]
    /\ past \in [Admins -> SUBSET Row]
    /\ unread \subseteq Admins /\ chosen \in Row /\ blind \in BOOLEAN

\* A table without a password is one the configuration has none for either:
\* what Start could put in, it has put in.
ConfiguredIsUsed == password = NoPassword => configured = NoPassword

\* A request that reads will see one of the passwords in its history; one
\* that is about to write has seen what entitles it to.
Entitled(a) ==
    /\ call[a].pc = "read" => password \in past[a]
    /\ call[a].kind \in {"setup", "change"} => call[a].new \in Passwords
    /\ call[a].pc = "write" =>
         /\ call[a].kind \in {"setup", "change"}
         /\ call[a].kind = "setup" => NoPassword \in past[a] \/ a \in unread
         /\ call[a].kind = "change" => call[a].old \in past[a] \ {NoPassword}

AccountInv ==
    /\ AccountTypeOK /\ ConfiguredIsUsed /\ ChosenStays
    /\ \A a \in Admins : Entitled(a)

\* A start on an empty table, or on one holding the configured password.
LEMMA AccountInvInit == AccountInit => AccountInv
<1> SUFFICES ASSUME AccountInit PROVE AccountInv
    OBVIOUS
<1> USE DEF AccountInit
<1>1. Free \in Calls
    BY DEF Free, Calls, Row
<1>2. AccountTypeOK
    BY <1>1 DEF AccountTypeOK, Row, Started
<1>3. ConfiguredIsUsed /\ ChosenStays
    BY DEF ConfiguredIsUsed, ChosenStays, Started
<1>4. \A a \in Admins : Entitled(a)
    BY DEF Entitled, Free
<1>5. QED
    BY <1>2, <1>3, <1>4 DEF AccountInv

\* A step of one request that stores nothing: what it may do to its own
\* record decides.
LEMMA QuietStep ==
    ASSUME AccountInv, NEW a \in Admins, NEW c \in Calls,
           call' = [call EXCEPT ![a] = c],
           UNCHANGED <<configured, password, secret, past, chosen, blind>>,
           unread' \in SUBSET Admins, unread \subseteq unread',
           Entitled(a)'
    PROVE  AccountInv'
<1>1. AccountTypeOK'
    BY DEF AccountInv, AccountTypeOK
<1>2. ConfiguredIsUsed' /\ ChosenStays'
    BY DEF AccountInv, ConfiguredIsUsed, ChosenStays
<1>3. ASSUME NEW b \in Admins, b # a PROVE Entitled(b)'
    BY <1>3 DEF AccountInv, AccountTypeOK, Entitled
<1>4. QED
    BY <1>1, <1>2, <1>3 DEF AccountInv

\* A step that stores a password: every other request may have seen it.
LEMMA StoringStep ==
    ASSUME AccountInv, NEW a \in Admins, NEW c \in Calls, NEW p \in Passwords,
           call' = [call EXCEPT ![a] = c],
           Store(p), UNCHANGED <<configured, secret>>,
           c.pc # "write", c.kind \notin {"setup", "change"}
    PROVE  AccountInv'
<1>1. AccountTypeOK'
    BY DEF AccountInv, AccountTypeOK, Store, Row
<1>2. ConfiguredIsUsed' /\ ChosenStays'
    BY AccountAssumption DEF ConfiguredIsUsed, ChosenStays, Store
<1>3. ASSUME NEW b \in Admins PROVE Entitled(b)'
  <2>1. /\ p \in past'[b] /\ past[b] \subseteq past'[b] /\ password' = p
        /\ unread' = unread
    BY DEF Store
  <2>2. CASE b = a
    BY <2>1, <2>2 DEF AccountInv, AccountTypeOK, Entitled
  <2>3. CASE b # a
    BY <2>1, <2>3 DEF AccountInv, AccountTypeOK, Entitled
  <2>4. QED
    BY <2>2, <2>3
<1>4. QED
    BY <1>1, <1>2, <1>3 DEF AccountInv

\* Every step preserves the invariant.
LEMMA AccountInvNext == AccountInv /\ [AccountNext]_adminVars => AccountInv'
<1> SUFFICES ASSUME AccountInv, [AccountNext]_adminVars
             PROVE  AccountInv'
    OBVIOUS
<1>0. Free \in Calls /\ Free.pc = "idle" /\ Free.kind = "none"
    BY DEF Free, Calls, Row
<1>t. call \in [Admins -> Calls]
    BY DEF AccountInv, AccountTypeOK
<1>1. ASSUME NEW a \in Admins, NEW k \in {"setup", "login", "change"},
             NEW p \in Row, NEW q \in Row, k \in {"setup", "change"} => q \in Passwords,
             Call(a, k, p, q)
      PROVE  AccountInv'
  <2> DEFINE c == [kind |-> k, pc |-> "read", old |-> p, new |-> q]
  <2>1. c \in Calls
    BY DEF Calls
  <2>2. AccountTypeOK'
    BY <1>1, <1>t, <2>1 DEF AccountInv, AccountTypeOK, Call
  <2>3. ConfiguredIsUsed' /\ ChosenStays'
    BY <1>1 DEF AccountInv, ConfiguredIsUsed, ChosenStays, Call
  <2>4. ASSUME NEW b \in Admins PROVE Entitled(b)'
    <3>1. CASE b = a
      <4>1. call'[b] = c /\ password \in past'[b] /\ password' = password
        BY <1>1, <1>t, <3>1 DEF Call, AccountInv, AccountTypeOK
      <4>2. QED
        BY <1>1, <4>1 DEF Entitled
    <3>2. CASE b # a
      BY <1>1, <1>t, <3>2 DEF Call, AccountInv, AccountTypeOK, Entitled
    <3>3. QED
      BY <3>1, <3>2
  <2>5. QED
    BY <2>2, <2>3, <2>4 DEF AccountInv
<1>2. ASSUME NEW a \in Admins, SetupAsked(a) \/ LoginRead(a) \/ LoginSigned(a) \/ ChangeVerified(a)
      PROVE  AccountInv'
  <2>1. /\ UNCHANGED <<configured, password, secret, past, chosen, blind>>
        /\ unread' \in SUBSET Admins /\ unread \subseteq unread'
    BY <1>2 DEF SetupAsked, LoginRead, LoginSigned, ChangeVerified, history, AccountInv, AccountTypeOK
  <2>2. CASE call' = [call EXCEPT ![a] = Free]
    <3>1. Entitled(a)'
      BY <1>0, <1>t, <2>2 DEF Entitled
    <3>2. QED
      BY <1>0, <2>1, <2>2, <3>1, QuietStep
  <2>3. CASE /\ At(a, "setup", "read") /\ Goto(a, "write")
             /\ password = NoPassword \/ a \in unread'
    <3> DEFINE c == [call[a] EXCEPT !.pc = "write"]
    <3>1. c \in Calls /\ call' = [call EXCEPT ![a] = c]
      BY <1>t, <2>3 DEF Goto, Calls
    <3>2. Entitled(a)'
      BY <1>t, <2>1, <2>3, <3>1 DEF Entitled, AccountInv, At, Calls
    <3>3. QED
      BY <2>1, <3>1, <3>2, QuietStep
  <2>4. CASE At(a, "login", "read") /\ Goto(a, "sign")
    <3> DEFINE c == [call[a] EXCEPT !.pc = "sign"]
    <3>1. c \in Calls /\ call' = [call EXCEPT ![a] = c]
      BY <1>t, <2>4 DEF Goto, Calls
    <3>2. Entitled(a)'
      BY <1>t, <2>1, <2>4, <3>1 DEF Entitled, AccountInv, At, Calls
    <3>3. QED
      BY <2>1, <3>1, <3>2, QuietStep
  <2>5. CASE At(a, "change", "read") /\ password = call[a].old /\ password # NoPassword
             /\ Goto(a, "write")
    <3> DEFINE c == [call[a] EXCEPT !.pc = "write"]
    <3>1. c \in Calls /\ call' = [call EXCEPT ![a] = c]
      BY <1>t, <2>5 DEF Goto, Calls
    <3>2. Entitled(a)'
      BY <1>t, <2>1, <2>5, <3>1 DEF Entitled, AccountInv, At, Calls
    <3>3. QED
      BY <2>1, <3>1, <3>2, QuietStep
  <2>6. QED
    BY <1>2, <2>2, <2>3, <2>4, <2>5
       DEF SetupAsked, LoginRead, LoginSigned, ChangeVerified, Return
<1>3. ASSUME NEW a \in Admins, NotStored(a), UNCHANGED <<configured, secret>>
      PROVE  AccountInv'
  <2>1. /\ UNCHANGED <<password, past, chosen, blind>> /\ unread' \in SUBSET Admins
        /\ unread \subseteq unread' /\ call' = [call EXCEPT ![a] = Free]
    BY <1>3 DEF NotStored, Return, history, AccountInv, AccountTypeOK
  <2>2. Entitled(a)'
    BY <1>0, <1>t, <2>1 DEF Entitled
  <2>3. QED
    BY <1>0, <1>3, <2>1, <2>2, QuietStep
<1>4. ASSUME NEW a \in Admins, SetupStored(a) \/ ChangeStored(a)
      PROVE  AccountInv'
  <2> DEFINE c == [call[a] EXCEPT !.kind = "login", !.pc = "read", !.old = call[a].new]
  <2>1. c \in Calls /\ c.pc = "read" /\ c.kind = "login"
    BY <1>t DEF Calls
  <2>2. call[a].new \in Passwords /\ UNCHANGED <<configured, secret>>
    BY <1>4 DEF SetupStored, ChangeStored, At, AccountInv, Entitled
  <2>3. \/ NotStored(a)
        \/ Store(call[a].new) /\ call' = [call EXCEPT ![a] = c]
        \/ Store(call[a].new) /\ call' = [call EXCEPT ![a] = Free]
    BY <1>4, <1>t DEF SetupStored, ChangeStored, Return, Calls
  <2>4. QED
    BY <1>0, <1>3, <2>1, <2>2, <2>3, StoringStep
<1>5. CASE AccountRestart
  <2>0. PICK read \in BOOLEAN : password' = Started(password, read) /\ blind' = (blind \/ ~read)
    BY <1>5 DEF AccountRestart
  <2>1. AccountTypeOK'
    BY <1>0, <1>5, <2>0 DEF AccountRestart, NewRun, Started, AccountInv, AccountTypeOK
  <2>2. ConfiguredIsUsed'
    BY <1>5, <2>0 DEF AccountRestart, NewRun, Started, AccountInv, ConfiguredIsUsed
  <2>3. ChosenStays'
    BY <1>5, <2>0 DEF AccountRestart, NewRun, Started, AccountInv, AccountTypeOK, ChosenStays,
                      ConfiguredIsUsed
  <2>4. \A a \in Admins : Entitled(a)'
    BY <1>0, <1>5 DEF AccountRestart, NewRun, Entitled
  <2>5. QED
    BY <2>1, <2>2, <2>3, <2>4 DEF AccountInv
<1>6. CASE UNCHANGED adminVars
    BY <1>6 DEF adminVars, history, AccountInv, AccountTypeOK, ConfiguredIsUsed, ChosenStays, Entitled
<1>7. QED
  <2>1. ASSUME NEW a \in Admins, NEW p \in Passwords, NEW q \in Passwords,
               \/ Call(a, "setup", NoPassword, p) \/ Call(a, "login", p, NoPassword)
               \/ Call(a, "change", p, q)
        PROVE  AccountInv'
    BY <1>1, <2>1 DEF Row
  <2>2. QED
    BY <1>2, <1>4, <1>5, <1>6, <2>1 DEF AccountNext

\* The invariant holds in every state of every behaviour.
LEMMA AccountInvHolds == AccountSpec => []AccountInv
BY AccountInvInit, AccountInvNext, PTL DEF AccountSpec

\* The password a set-up or a change stored last is the password, through
\* failing reads and writes, requests in progress and restarts, until a start
\* that cannot read the row puts the configured one back (Start, NeedsSetup,
\* Setup, ChangePassword).
THEOREM ChosenPasswordStays == AccountSpec => []ChosenStays
<1>1. AccountInv => ChosenStays
    BY DEF AccountInv
<1>2. QED
    BY <1>1, AccountInvHolds, PTL

\* Every step that changes the password is one of those AccountChange lists.
LEMMA AccountChanges == AccountInv /\ [AccountNext]_adminVars => AccountChange
<1> SUFFICES ASSUME AccountInv, [AccountNext]_adminVars
             PROVE  AccountChange
    OBVIOUS
<1>1. ASSUME NEW a \in Admins, SetupStored(a) \/ ChangeStored(a)
      PROVE  AccountChange
    BY <1>1 DEF SetupStored, ChangeStored, NotStored, At, Store, AccountChange, AccountInv, Entitled
<1>2. CASE AccountRestart
  <2>1. PICK read \in BOOLEAN : password' = Started(password, read) /\ blind' = (blind \/ ~read)
    BY <1>2 DEF AccountRestart
  <2>2. secret' # secret \/ password' = password
    BY <1>2, <2>1 DEF AccountRestart, NewRun, AccountInv, AccountTypeOK
  <2>3. QED
    BY <2>1, <2>2 DEF Started, AccountChange
<1>3. CASE password' = password
    BY <1>3 DEF AccountChange
<1>4. QED
    BY <1>1, <1>2, <1>3 DEF AccountNext, adminVars, Call, SetupAsked, LoginRead,
       LoginSigned, ChangeVerified

\* The account passes to somebody who found it without a password or gave one
\* it had, to whoever asks while NeedsSetup cannot read the row, and at a start
\* to the configured password in the same two cases: in no other way
\* (handleSetup, handleChangePassword, Start).
THEOREM AccountHandedOver == AccountSpec => AccountIsHandedOver
BY AccountInvHolds, AccountChanges, PTL DEF AccountSpec, AccountIsHandedOver
=============================================================================
