------------------------------- MODULE Devices -------------------------------
(* The machines of one account in the accounts service: logins by a one-time  *)
(* code, sign-outs, unlinking and the account's end (app/server/app.ts,       *)
(* lib/tokens.ts, lib/codes.ts over the Postgres store).  A login finds the   *)
(* row of its machine and then writes it by the hash it found, in two calls.  *)
(* The refresh secret a login draws is the login itself; access tokens, which *)
(* a renewal replaces by that secret, are left out.                           *)
EXTENDS Naturals, Sequences, FiniteSets

CONSTANTS Login,   \* exchanges of a one-time code, all from one machine
          Code,    \* one-time codes
          Nobody

DevicesAssumption == Nobody \notin Login

VARIABLES
  used,      \* the codes consumed
  device,    \* the device rows, in the order of created_at: the refresh hash and whether it is revoked
  login,     \* [Login -> what it is at, the hash it found]
  signOut,   \* a sign-out under way: the hash it found, or Nobody
  over,      \* the account was deleted
  handed,    \* history: [Login -> the logins that were answered before it began]
  raced      \* history: a login overlapped with another, with a sign-out, an unlinking or the account's end

deviceVars == <<used, device, login, signOut, over, handed, raced>>

NoLogin == [at |-> "idle", found |-> Nobody]

DevicesInit ==
  /\ used = {} /\ device = <<>>
  /\ login = [l \in Login |-> NoLogin]
  /\ signOut = Nobody /\ over = FALSE
  /\ handed = [l \in Login |-> {}]
  /\ raced = FALSE

Rows == DOMAIN device
Unrevoked == {i \in Rows : ~device[i].revoked}
At(place) == {l \in Login : login[l].at = place}
UnderWay == At("find") \cup At("update") \cup At("put")
LoginGoes(l, to) == login' = [login EXCEPT ![l].at = to]
Races(others) == raced' = (raced \/ others # {})

(* updateToken: every row with this refresh hash, none if it has moved on.    *)
Having(hash) == {i \in Rows : device[i].refresh = hash}

(* exchangeCode: one statement stamps the code and says whether it was first. *)
ExchangeCode(l, c) ==
  /\ login[l].at = "idle"
  /\ IF c \in used \/ over
     THEN LoginGoes(l, "refused") /\ UNCHANGED <<used, handed, raced>>
     ELSE /\ used' = used \cup {c}
          /\ LoginGoes(l, "find")
          /\ handed' = [handed EXCEPT ![l] = At("done")]
          /\ Races(UnderWay \cup ({signOut} \ {Nobody}))
  /\ UNCHANGED <<device, signOut, over>>

(* deviceForMachine: the newest row that is not revoked.                      *)
DeviceForMachine(l) ==
  /\ login[l].at = "find"
  /\ \/ Unrevoked = {} /\ LoginGoes(l, "put")
     \/ \E newest \in Unrevoked :
          /\ \A i \in Unrevoked : i <= newest
          /\ login' = [login EXCEPT ![l] = [at |-> "update", found |-> device[newest].refresh]]
  /\ UNCHANGED <<used, device, signOut, over, handed, raced>>

(* Mutant: the machine's row keeps the refresh hash it has, and the login gets *)
(* a row of its own.                                                          *)
UpdateTokenBeside(l) ==
  /\ login[l].at = "update" /\ LoginGoes(l, "done")
  /\ device' = Append(device, [refresh |-> l, revoked |-> FALSE])
  /\ UNCHANGED <<used, signOut, over, handed, raced>>

(* issueTokens for a machine it knows.  A row that moved on meanwhile is not  *)
(* found, and the login answers with secrets the service does not have.       *)
UpdateToken(l) ==
  /\ login[l].at = "update" /\ LoginGoes(l, "done")
  /\ device' = [i \in Rows |-> IF i \in Having(login[l].found) THEN [device[i] EXCEPT !.refresh = l] ELSE device[i]]
  /\ UNCHANGED <<used, signOut, over, handed, raced>>

(* issueTokens for a machine it does not know.                                *)
PutToken(l) ==
  /\ login[l].at = "put" /\ LoginGoes(l, "done")
  /\ device' = Append(device, [refresh |-> l, revoked |-> FALSE])
  /\ UNCHANGED <<used, signOut, over, handed, raced>>

(* revokeByRefreshToken, by a machine that holds the secret of login l.       *)
FindToSignOut(l) ==
  /\ signOut = Nobody /\ l \in At("done")
  /\ \E i \in Unrevoked : device[i].refresh = l
  /\ signOut' = l
  /\ Races(UnderWay)
  /\ UNCHANGED <<used, device, login, over, handed>>

SignOut ==
  /\ signOut # Nobody /\ signOut' = Nobody
  /\ device' = [i \in Rows |-> IF i \in Having(signOut) THEN [device[i] EXCEPT !.revoked = TRUE] ELSE device[i]]
  /\ UNCHANGED <<used, login, over, handed, raced>>

(* revokeDevice: somebody unlinks the machine in the browser.                 *)
RevokeDevice(i) ==
  /\ i \in Unrevoked
  /\ device' = [device EXCEPT ![i].revoked = TRUE]
  /\ Races(UnderWay)
  /\ UNCHANGED <<used, login, signOut, over, handed>>

(* deleteAccount, as far as machines go: rows and codes are deleted.          *)
DeleteAccount ==
  /\ ~over /\ over' = TRUE
  /\ device' = <<>>
  /\ Races(UnderWay)
  /\ UNCHANGED <<used, login, signOut, handed>>

DevicesNext ==
  \/ \E l \in Login :
       \/ \E c \in Code : ExchangeCode(l, c)
       \/ DeviceForMachine(l) \/ UpdateToken(l) \/ PutToken(l) \/ FindToSignOut(l)
  \/ SignOut
  \/ \E i \in Rows : RevokeDevice(i)
  \/ DeleteAccount

DevicesSpec == DevicesInit /\ [][DevicesNext]_deviceVars

------------------------------------------------------------------------------
DevicesTypeOK ==
  /\ used \subseteq Code
  /\ device \in Seq([refresh : Login, revoked : BOOLEAN])
  /\ login \in [Login -> [at : {"idle", "find", "update", "put", "done", "refused"}, found : Login \cup {Nobody}]]
  /\ signOut \in Login \cup {Nobody} /\ over \in BOOLEAN /\ raced \in BOOLEAN
  /\ Cardinality(UnderWay \cup At("done")) <= Cardinality(used)

Accepted(l) == \E i \in Unrevoked : device[i].refresh = l

(* "Rotating the hashes retires whatever the previous login on that machine   *)
(* was handed" (tokens.ts:39), unless requests overlapped: two logins at once *)
(* may leave two rows for the machine, of which later logins rotate one only. *)
(* And a deleted account has no machine.                                      *)
LoginRetires ==
  ~raced => /\ \A l \in At("done") : \A k \in handed[l] : ~Accepted(k)
            /\ over => Unrevoked = {}

==============================================================================
