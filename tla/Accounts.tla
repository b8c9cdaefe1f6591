------------------------------ MODULE Accounts ------------------------------
(* The rows of the users: AuthService with its factors (TOTP and recovery   *)
(* codes, codes by mail or text message, passkeys, trusted devices) and     *)
(* UserService.                                                             *)
(*                                                                          *)
(* Every handler reads one user's row, checks the password and what else    *)
(* the request proves, changes the row in memory and saves it WHOLE; a      *)
(* request whose proof is wrong changes nothing and is left out.  Secrets   *)
(* are told apart by what they are for, not by their text.                  *)
EXTENDS Requests, FiniteSets, Sequences

CONSTANTS
    UserIds,       \* ids of rows, handed out in increasing order
    UserNames,
    Contacts,      \* mail addresses and telephone numbers
    Profiles,      \* what administrators ask for: [name, role, contact, disabled]
    Codes,         \* the recovery codes of one generation
    Passkeys,      \* ids of passkeys
    MaxDevices,    \* maxTrustedDevices
    DeviceTTL,     \* trustedDeviceTTL
    ChallengeTTL   \* mfaChallengeTTL

Channels == {"email", "sms"}
Roles == {"admin", "operator"}

ASSUME AccountsAssumption ==
    /\ UserIds \subseteq Nat
    /\ Profiles \subseteq [name : UserNames, role : Roles, disabled : BOOLEAN,
                           contact : [Channels -> Contacts \cup {None}]]
    /\ MaxDevices \in Nat \ {0} /\ DeviceTTL \in Nat /\ ChallengeTTL \in Nat

VARIABLES
    users,    \* [UserIds -> row or None]
    lastUser  \* the last id handed out

accountRows == <<users, lastUser>>
accountsVars == <<requestsVars, accountRows>>

(* A code that was sent and not used yet.                                   *)
Pending == [channel : Channels, to : Contacts, until : Nat]
Challenge == [type : {"register", "login"}, until : Nat]

(* The row of a new user.                                                   *)
UserRow(p) ==
    [name |-> p.name, role |-> p.role, disabled |-> p.disabled, contact |-> p.contact,
     totp |-> FALSE, secret |-> FALSE, codes |-> {}, otp |-> {}, passkeys |-> {},
     devices |-> <<>>, pending |-> None, challenge |-> None]

UserExists(u) == users[u] # None
UserNameFree(name, u) == \A v \in UserIds \ {u} : UserExists(v) => users[v].name # name

userMFAEnabled(row) == row.totp \/ row.passkeys # {} \/ row.otp # {}

(* Mutant: the devices stay trusted when the last factor goes. *)
KeepDevices(row) == row

clearTrustedDevicesIfMFAOff(row) ==
    IF userMFAEnabled(row) THEN row
    ELSE [row EXCEPT !.devices = <<>>, !.pending = None, !.challenge = None]

(* filterActiveTrustedDevices: a device is its date of expiry.              *)
Active(devices) ==
    LET kept[i \in 0 .. Len(devices)] ==
          IF i = 0 THEN <<>>
          ELSE IF devices[i] > clock THEN Append(kept[i - 1], devices[i]) ELSE kept[i - 1]
    IN kept[Len(devices)]

(* The user is loaded, and the request will save these rows of it in turn.  *)
ChangeAll(c, u, rows) ==
    /\ rows # <<>>
    /\ Begin(c, [op |-> "saveUser", user |-> u, rows |-> rows])
    /\ UNCHANGED accountRows

Change(c, u, row) == ChangeAll(c, u, <<row>>)

(* gorm's Save: the whole row, inserted again when it is gone.  When it     *)
(* fails, here because another user has taken the name, the request ends.   *)
SaveUser(c) ==
    /\ req[c].op = "saveUser"
    /\ LET r == req[c] IN
         IF ~UserNameFree(Head(r.rows).name, r.user)
         THEN Done(c) /\ UNCHANGED users
         ELSE /\ users' = [users EXCEPT ![r.user] = Head(r.rows)]
              /\ IF Len(r.rows) = 1 THEN Done(c) ELSE Then(c, [r EXCEPT !.rows = Tail(@)])
    /\ UNCHANGED lastUser

-----------------------------------------------------------------------------
(* Users.                                                                   *)

(* There is no user yet, or one that Create inserted before.                *)
AccountsInit ==
    \/ users = [u \in UserIds |-> None] /\ lastUser = 0
    \/ /\ lastUser = 1 /\ lastUser \in UserIds
       /\ \E p \in Profiles : users = [u \in UserIds |-> IF u = 1 THEN UserRow(p) ELSE None]

(* Setup, while there is no user, and UserService.Create, up to the         *)
(* insertion.                                                               *)
Setup(c, name) ==
    /\ \A u \in UserIds : ~UserExists(u)
    /\ Begin(c, [op |-> "insertUser",
                 row |-> UserRow([name |-> name, role |-> "admin", disabled |-> FALSE,
                                  contact |-> [ch \in Channels |-> None]])])
    /\ UNCHANGED accountRows

CreateUser(c, p) ==
    /\ UserNameFree(p.name, None)
    /\ Begin(c, [op |-> "insertUser", row |-> UserRow(p)])
    /\ UNCHANGED accountRows

InsertUser(c) ==
    /\ req[c].op = "insertUser"
    /\ IF UserNameFree(req[c].row.name, None)
       THEN /\ lastUser + 1 \in UserIds
            /\ lastUser' = lastUser + 1
            /\ users' = [users EXCEPT ![lastUser'] = req[c].row]
       ELSE UNCHANGED accountRows
    /\ Done(c)

(* UserService.Update: profile, role, contacts, a new password, suspension. *)
Edited(row, p, password) ==
    LET out == {ch \in row.otp : p.contact[ch] = None}
        suspended == p.disabled /\ ~row.disabled
        forgotten == password \/ suspended
    IN clearTrustedDevicesIfMFAOff(
         [row EXCEPT !.name = p.name, !.role = p.role, !.contact = p.contact,
            !.disabled = p.disabled,
            !.otp = @ \ out,
            !.devices = IF forgotten THEN <<>> ELSE @,
            !.challenge = IF forgotten THEN None ELSE @,
            !.pending = IF forgotten \/ out # {} \/ p.contact # row.contact THEN None ELSE @])

UpdateUser(c, u, p, password) ==
    /\ UserExists(u)
    /\ p.name # users[u].name => UserNameFree(p.name, None)
    /\ Change(c, u, Edited(users[u], p, password))

ResetTwoFactor(c, u) ==
    /\ UserExists(u)
    /\ Change(c, u, UserRow(users[u]))

(* Delete: the last active admin stays, when they are counted.              *)
CountByRole(role) ==
    Cardinality({u \in UserIds : UserExists(u) /\ users[u].role = role /\ ~users[u].disabled})

CheckDeleteUser(c, u) ==
    /\ UserExists(u)
    /\ users[u].role = "admin" => CountByRole("admin") > 1
    /\ Begin(c, [op |-> "deleteUser", user |-> u])
    /\ UNCHANGED accountRows

DeleteUser(c) ==
    /\ req[c].op = "deleteUser"
    /\ users' = [users EXCEPT ![req[c].user] = None]
    /\ Done(c)
    /\ UNCHANGED lastUser

ChangePassword(c, u) ==
    /\ UserExists(u)
    /\ Change(c, u, [users[u] EXCEPT !.devices = <<>>, !.pending = None, !.challenge = None])

-----------------------------------------------------------------------------
(* Factors.                                                                 *)

PrepareTwoFactor(c, u) ==
    /\ UserExists(u) /\ ~users[u].totp
    /\ Change(c, u, [users[u] EXCEPT !.secret = TRUE])

EnableTwoFactor(c, u) ==
    /\ UserExists(u) /\ ~users[u].totp /\ users[u].secret
    /\ Change(c, u, [users[u] EXCEPT !.totp = TRUE, !.codes = Codes])

DisableTwoFactor(c, u) ==
    /\ UserExists(u) /\ users[u].totp
    /\ Change(c, u, clearTrustedDevicesIfMFAOff(
                      [users[u] EXCEPT !.totp = FALSE, !.secret = FALSE, !.codes = {}]))

RegenerateRecoveryCodes(c, u) ==
    /\ UserExists(u) /\ users[u].totp
    /\ Change(c, u, [users[u] EXCEPT !.codes = Codes])

(* ConfigureOutOfBandOTP: `contact` is None when the request gives none.    *)
shouldClearPendingOTP(row, ch, changed) ==
    \/ row.otp = {}
    \/ /\ row.pending # None /\ row.pending.channel = ch
       /\ changed \/ ch \notin row.otp

Configured(row, ch, contact, enabled) ==
    LET changed == contact # None /\ contact # row.contact[ch]
        new == [row EXCEPT !.contact[ch] = IF contact = None THEN @ ELSE contact,
                           !.otp = IF enabled THEN @ \cup {ch} ELSE @ \ {ch}]
    IN clearTrustedDevicesIfMFAOff(
         [new EXCEPT !.pending = IF shouldClearPendingOTP(new, ch, changed) THEN None ELSE @])

ConfigureOutOfBandOTP(c, u, ch, contact, enabled) ==
    /\ UserExists(u)
    /\ enabled => contact # None \/ users[u].contact[ch] # None
    /\ Change(c, u, Configured(users[u], ch, contact, enabled))

BeginWebAuthnRegistration(c, u) ==
    /\ UserExists(u)
    /\ Change(c, u, [users[u] EXCEPT !.challenge =
                       [type |-> "register", until |-> clock + ChallengeTTL]])

(* loadWebAuthnChallenge                                                    *)
Challenged(row, type) ==
    row.challenge # None /\ row.challenge.type = type /\ row.challenge.until >= clock

FinishWebAuthnRegistration(c, u, key) ==
    /\ UserExists(u) /\ Challenged(users[u], "register") /\ key \notin users[u].passkeys
    /\ Change(c, u, [users[u] EXCEPT !.passkeys = @ \cup {key}, !.challenge = None])

DeleteWebAuthnCredential(c, u, key) ==
    /\ UserExists(u) /\ key \in users[u].passkeys
    /\ Change(c, u, clearTrustedDevicesIfMFAOff([users[u] EXCEPT !.passkeys = @ \ {key}]))

RevokeTrustedDevice(c, u, i) ==
    /\ UserExists(u) /\ i \in DOMAIN users[u].devices
    /\ Change(c, u, [users[u] EXCEPT !.devices = SubSeq(@, 1, i - 1) \o SubSeq(@, i + 1, Len(@))])

-----------------------------------------------------------------------------
(* Signing in.                                                              *)

MayStart(u) == UserExists(u) /\ ~users[u].disabled /\ userMFAEnabled(users[u])

WithoutCode(row) == [row EXCEPT !.pending = None]

(* SendLoginOTP saves the code before it is delivered, and when the         *)
(* delivery fails it takes it back with the row it has in memory.           *)
SendLoginOTP(c, u, ch, delivered) ==
    /\ MayStart(u) /\ ch \in users[u].otp
    /\ LET row == [users[u] EXCEPT !.pending =
                      [channel |-> ch, to |-> users[u].contact[ch], until |-> clock + ChallengeTTL]]
       IN ChangeAll(c, u, <<row>> \o IF delivered THEN <<>> ELSE <<WithoutCode(row)>>)

BeginWebAuthnLogin(c, u) ==
    /\ MayStart(u) /\ users[u].passkeys # {}
    /\ Change(c, u, [users[u] EXCEPT !.challenge =
                       [type |-> "login", until |-> clock + ChallengeTTL]])

(* Login goes on with the row it loaded, or with one whose devices that     *)
(* expired were dropped and that it saved.                                  *)
Cleaned(row) == [row EXCEPT !.devices = Active(@)]

(* The code that was sent can still be answered; Login clears one that      *)
(* cannot, and goes on to refuse.                                           *)
Answerable(row) ==
    row.pending # None /\ row.pending.until >= clock /\ row.pending.channel \in row.otp

(* The row that a second factor leaves: a TOTP, which is not saved, a       *)
(* recovery code, the code that was sent, or a passkey.                     *)
Proved(row) ==
    (IF row.totp THEN {row} \cup {[row EXCEPT !.codes = @ \ {code}] : code \in row.codes} ELSE {})
    \cup (IF Answerable(row) THEN {WithoutCode(row)} ELSE {})
    \cup (IF row.passkeys # {} /\ Challenged(row, "login")
          THEN {[row EXCEPT !.challenge = None]} ELSE {})

(* issueTrustedDevice                                                       *)
Remembered(row) ==
    LET all == Append(Active(row.devices), clock + DeviceTTL)
        over == IF Len(all) > MaxDevices THEN Len(all) - MaxDevices ELSE 0
    IN [row EXCEPT !.devices = SubSeq(all, over + 1, Len(all))]

Saves(old, new) == IF new = old THEN <<>> ELSE <<new>>

LoginWithDevice(c, u) ==
    /\ MayStart(u) /\ \E i \in DOMAIN users[u].devices : users[u].devices[i] >= clock
    /\ Change(c, u, Cleaned(users[u]))

Login(c, u, remember) ==
    /\ MayStart(u)
    /\ \E row \in {users[u], Cleaned(users[u])} : \E proved \in Proved(row) :
         ChangeAll(c, u, Saves(users[u], row) \o Saves(row, proved)
                           \o IF remember THEN <<Remembered(proved)>> ELSE <<>>)

RefuseLogin(c, u) ==
    /\ MayStart(u)
    /\ \E row \in {users[u], Cleaned(users[u])} :
         ChangeAll(c, u, Saves(users[u], row)
                           \o IF Answerable(row) THEN <<>> ELSE Saves(row, WithoutCode(row)))

-----------------------------------------------------------------------------
AccountsRequest(c) ==
    \/ \E name \in UserNames : Setup(c, name)
    \/ \E p \in Profiles :
         \/ CreateUser(c, p)
         \/ \E u \in UserIds, password \in BOOLEAN : UpdateUser(c, u, p, password)
    \/ \E u \in UserIds :
         \/ ResetTwoFactor(c, u) \/ CheckDeleteUser(c, u) \/ ChangePassword(c, u)
         \/ PrepareTwoFactor(c, u) \/ EnableTwoFactor(c, u) \/ DisableTwoFactor(c, u)
         \/ RegenerateRecoveryCodes(c, u) \/ BeginWebAuthnRegistration(c, u)
         \/ BeginWebAuthnLogin(c, u) \/ LoginWithDevice(c, u) \/ RefuseLogin(c, u)
         \/ \E ch \in Channels, contact \in Contacts \cup {None}, enabled \in BOOLEAN :
              ConfigureOutOfBandOTP(c, u, ch, contact, enabled)
         \/ \E key \in Passkeys : FinishWebAuthnRegistration(c, u, key) \/ DeleteWebAuthnCredential(c, u, key)
         \/ \E i \in 1 .. MaxDevices : RevokeTrustedDevice(c, u, i)
         \/ \E ch \in Channels, delivered \in BOOLEAN : SendLoginOTP(c, u, ch, delivered)
         \/ \E remember \in BOOLEAN : Login(c, u, remember)
    \/ InsertUser(c) \/ SaveUser(c) \/ DeleteUser(c)
    \/ Abandon(c) /\ UNCHANGED accountRows

(* A restart of the Master drops the requests, as if each were abandoned.   *)
AccountsNext ==
    \/ \E c \in Clients : AccountsRequest(c)
    \/ Tick /\ UNCHANGED accountRows

AccountsSpec == RequestsInit /\ AccountsInit /\ [][AccountsNext]_accountsVars

-----------------------------------------------------------------------------
Consistent(row) ==
    /\ row.totp => row.secret
    /\ row.codes # {} => row.totp
    /\ \A ch \in row.otp : row.contact[ch] # None
    /\ row.pending # None =>
         row.pending.channel \in row.otp /\ row.pending.to = row.contact[row.pending.channel]
    /\ row.devices # <<>> => userMFAEnabled(row)
    /\ Len(row.devices) <= MaxDevices

(* However requests of one user overtake and undo each other, the factors   *)
(* of a row fit together: a code that was sent is for a channel that is     *)
(* still on and for the address that is still the user's, no device stays   *)
(* trusted and no recovery code stays valid once the factor it stands in    *)
(* for is gone, and the list of devices keeps to its limit                  *)
(* (clearTrustedDevicesIfMFAOff, shouldClearPendingOTP, maxTrustedDevices). *)
FactorsConsistent == \A u \in UserIds : UserExists(u) => Consistent(users[u])
=============================================================================
