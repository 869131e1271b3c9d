----------------------------- MODULE DeviceAuth -----------------------------
(***************************************************************************)
(* Who may do what over HTTP: pairing codes, device keys, challenges,      *)
(* access tokens and the action tokens that confirm one destructive act.   *)
(* Each method of class DeviceAuth that takes the write lock is one        *)
(* action; a request is authorised in one transaction and acts in another, *)
(* with revocations and other requests in between.                         *)
(*                                                                         *)
(* auth_challenges and admin_challenges are one table here, access_tokens  *)
(* and action_tokens another: purpose tells them apart.  A method reads    *)
(* the time before it waits for the lock, so a row it takes for valid may  *)
(* be past its deadline: a row lapses here when no method can take it for  *)
(* valid any longer.                                                       *)
(***************************************************************************)
EXTENDS Sequences, FiniteSets

CONSTANTS Device, Code, Challenge, Token,  \* random ids, never issued twice
          KeyText,                         \* base64 texts of public keys
          Request,                         \* request threads
          Act,                             \* an administrator action on a resource
          Login,                           \* purpose of an ordinary challenge or token
          NoDevice, NoKey, NoToken

Purpose == Act \cup {Login}

ASSUME AuthAssumption ==
  /\ Login \notin Act
  /\ NoDevice \notin Device /\ NoKey \notin KeyText /\ NoToken \notin Token

VARIABLES devices,     \* rows of devices
          pairings,    \* rows of pairing_sessions
          challenges,  \* rows of auth_challenges and admin_challenges
          signed,      \* challenges their device's key has signed
          tokens,      \* rows of access_tokens and action_tokens
          requests,    \* what each request thread is doing
          acts         \* history: what was done on the strength of each action token

authVars == <<devices, pairings, challenges, signed, tokens, requests, acts>>

DeviceRow == [status : {"none", "active", "revoked"}, key : KeyText \cup {NoKey}]

ChallengeRow == [state : {"none", "open", "used", "lapsed"},
                 device : Device \cup {NoDevice}, purpose : Purpose]

TokenRow == [state : {"none", "live", "spent", "lapsed"},
             device : Device \cup {NoDevice}, purpose : Purpose]

IdleRequest == [pc |-> "idle", device |-> NoDevice, purpose |-> Login, token |-> NoToken]

\* Only an act is confirmed, and by a token.
RequestRow ==
  {IdleRequest}
    \cup [pc : {"authorised"}, device : Device, purpose : {Login}, token : {NoToken}]
    \cup [pc : {"challenge"}, device : Device, purpose : Purpose, token : {NoToken}]
    \cup [pc : {"confirmed"}, device : Device, purpose : Act, token : Token]

Active(d) == devices[d].status = "active"

Proceed(r, row) == requests' = [requests EXCEPT ![r] = row]

-----------------------------------------------------------------------------
AuthInit ==
  /\ devices = [d \in Device |-> [status |-> "none", key |-> NoKey]]
  /\ pairings = [o \in Code |-> "none"]
  /\ challenges = [c \in Challenge |-> [state |-> "none", device |-> NoDevice, purpose |-> Login]]
  /\ signed = {}
  /\ tokens = [t \in Token |-> [state |-> "none", device |-> NoDevice, purpose |-> Login]]
  /\ requests = [r \in Request |-> IdleRequest]
  /\ acts = [t \in Token |-> <<>>]

-----------------------------------------------------------------------------
(* Pairing *)

CreatePairing(o) ==
  /\ pairings[o] = "none"
  /\ pairings' = [pairings EXCEPT ![o] = "open"]
  /\ UNCHANGED <<devices, challenges, signed, tokens, requests, acts>>

\* A key's text is registered once, whatever became of its device.  The code
\* decodes the text to see that it is a key and compares the text: several
\* texts may be spellings of one key, and nothing here takes them for one.
ClaimPairing(o, k) ==
  /\ pairings[o] = "open"
  /\ \A d \in Device : devices[d].key # k
  /\ \E d \in Device :
       /\ devices[d].status = "none"
       /\ devices' = [devices EXCEPT ![d] = [status |-> "active", key |-> k]]
  /\ pairings' = [pairings EXCEPT ![o] = "used"]
  /\ UNCHANGED <<challenges, signed, tokens, requests, acts>>

-----------------------------------------------------------------------------
(* Challenges *)

\* create_challenge, for anyone, reads the device's status...
AskChallenge(r, d) ==
  /\ requests[r].pc = "idle"
  /\ Active(d)
  /\ Proceed(r, [IdleRequest EXCEPT !.pc = "challenge", !.device = d])
  /\ UNCHANGED <<devices, pairings, challenges, signed, tokens, acts>>

\* ... and create_admin_challenge does so for the device of the access token...
AskAdminChallenge(r, a) ==
  /\ requests[r].pc = "authorised"
  /\ Active(requests[r].device)
  /\ Proceed(r, [requests[r] EXCEPT !.pc = "challenge", !.purpose = a])
  /\ UNCHANGED <<devices, pairings, challenges, signed, tokens, acts>>

\* ... and both insert in a transaction of its own.
InsertChallenge(r) ==
  /\ requests[r].pc = "challenge"
  /\ \E c \in Challenge :
       /\ challenges[c].state = "none"
       /\ challenges' = [challenges EXCEPT ![c] =
                           [state |-> "open", device |-> requests[r].device,
                            purpose |-> requests[r].purpose]]
  /\ Proceed(r, IdleRequest)
  /\ UNCHANGED <<devices, pairings, signed, tokens, acts>>

\* The owner of the device signs the challenge with its purpose.
Sign(c) ==
  /\ challenges[c].state # "none"
  /\ c \notin signed
  /\ signed' = signed \cup {c}
  /\ UNCHANGED <<devices, pairings, challenges, tokens, requests, acts>>

\* The challenge stays open.
GrantKeepsChallenge_mutant(c) ==
  LET d == challenges[c].device IN
  /\ challenges[c].state = "open"
  /\ c \in signed
  /\ Active(d)
  /\ \E t \in Token :
       /\ tokens[t].state = "none"
       /\ tokens' = [tokens EXCEPT ![t] =
                       [state |-> "live", device |-> d, purpose |-> challenges[c].purpose]]
  /\ UNCHANGED <<devices, pairings, challenges, signed, requests, acts>>

\* The device was looked at when the challenge was asked for; that will do.
GrantUnasked_mutant(c) ==
  LET d == challenges[c].device IN
  /\ challenges[c].state = "open"
  /\ c \in signed
  /\ \E t \in Token :
       /\ tokens[t].state = "none"
       /\ tokens' = [tokens EXCEPT ![t] =
                       [state |-> "live", device |-> d, purpose |-> challenges[c].purpose]]
  /\ challenges' = [challenges EXCEPT ![c].state = "used"]
  /\ UNCHANGED <<devices, pairings, signed, requests, acts>>

\* What exchange_token and exchange_admin_token have in common: a signed,
\* unused challenge of an active device is turned into one token.
Grant(c) ==
  LET d == challenges[c].device IN
  /\ challenges[c].state = "open"
  /\ c \in signed
  /\ Active(d)
  /\ \E t \in Token :
       /\ tokens[t].state = "none"
       /\ tokens' = [tokens EXCEPT ![t] =
                       [state |-> "live", device |-> d, purpose |-> challenges[c].purpose]]
  /\ challenges' = [challenges EXCEPT ![c].state = "used"]
  /\ UNCHANGED <<devices, pairings, signed, requests, acts>>

ExchangeToken(c) == challenges[c].purpose = Login /\ Grant(c)

ExchangeAdminToken(c) == challenges[c].purpose \in Act /\ Grant(c)

-----------------------------------------------------------------------------
(* Requests *)

\* verify_token; any number of requests may carry the same token.
Authorize(r, t) ==
  /\ requests[r].pc = "idle"
  /\ tokens[t].state = "live" /\ tokens[t].purpose = Login
  /\ Active(tokens[t].device)
  /\ Proceed(r, [IdleRequest EXCEPT !.pc = "authorised", !.device = tokens[t].device])
  /\ UNCHANGED <<devices, pairings, challenges, signed, tokens, acts>>

\* Any action token of the device confirms any act.
ConsumeAny_mutant(r, a, t) ==
  /\ requests[r].pc = "authorised"
  /\ Active(requests[r].device)
  /\ tokens[t].state = "live"
  /\ tokens[t].device = requests[r].device
  /\ tokens[t].purpose \in Act
  /\ tokens' = [tokens EXCEPT ![t].state = "spent"]
  /\ Proceed(r, [requests[r] EXCEPT !.pc = "confirmed", !.purpose = a, !.token = t])
  /\ UNCHANGED <<devices, pairings, challenges, signed, acts>>

\* An access token confirms as well, whatever its purpose.
ConsumeLogin_mutant(r, a, t) ==
  /\ requests[r].pc = "authorised"
  /\ Active(requests[r].device)
  /\ tokens[t].state = "live"
  /\ tokens[t].device = requests[r].device
  /\ tokens' = [tokens EXCEPT ![t].state = "spent"]
  /\ Proceed(r, [requests[r] EXCEPT !.pc = "confirmed", !.purpose = tokens[t].purpose,
                                    !.token = t])
  /\ UNCHANGED <<devices, pairings, challenges, signed, acts>>

\* consume_action_token, in a transaction of its own.
ConsumeActionToken(r, a, t) ==
  /\ requests[r].pc = "authorised"
  /\ Active(requests[r].device)
  /\ tokens[t] = [state |-> "live", device |-> requests[r].device, purpose |-> a]
  /\ tokens' = [tokens EXCEPT ![t].state = "spent"]
  /\ Proceed(r, [requests[r] EXCEPT !.pc = "confirmed", !.purpose = a, !.token = t])
  /\ UNCHANGED <<devices, pairings, challenges, signed, acts>>

\* delete_file or purge_file of the confirmed path.
Perform(r) ==
  /\ requests[r].pc = "confirmed"
  /\ acts' = [acts EXCEPT ![requests[r].token] =
                Append(@, <<requests[r].device, requests[r].purpose>>)]
  /\ Proceed(r, IdleRequest)
  /\ UNCHANGED <<devices, pairings, challenges, signed, tokens>>

\* The rest of an ordinary request, an exception (no file at the path, lock
\* timeout) or the death of the server; a spent token stays spent.
EndRequest(r) ==
  /\ requests[r].pc # "idle"
  /\ Proceed(r, IdleRequest)
  /\ UNCHANGED <<devices, pairings, challenges, signed, tokens, acts>>

-----------------------------------------------------------------------------
(* Revocation and deadlines *)

\* Open challenges stay; so do requests that have been authorised.
RevokeDevice(d) ==
  /\ Active(d)
  /\ devices' = [devices EXCEPT ![d].status = "revoked"]
  /\ tokens' = [t \in Token |->
                  IF tokens[t].device = d THEN [tokens[t] EXCEPT !.state = "spent"]
                  ELSE tokens[t]]
  /\ UNCHANGED <<pairings, challenges, signed, requests, acts>>

PairingLapses(o) ==
  /\ pairings[o] = "open"
  /\ pairings' = [pairings EXCEPT ![o] = "lapsed"]
  /\ UNCHANGED <<devices, challenges, signed, tokens, requests, acts>>

ChallengeLapses(c) ==
  /\ challenges[c].state = "open"
  /\ challenges' = [challenges EXCEPT ![c].state = "lapsed"]
  /\ UNCHANGED <<devices, pairings, signed, tokens, requests, acts>>

TokenLapses(t) ==
  /\ tokens[t].state = "live"
  /\ tokens' = [tokens EXCEPT ![t].state = "lapsed"]
  /\ UNCHANGED <<devices, pairings, challenges, signed, requests, acts>>

AuthNext ==
  \/ \E o \in Code : CreatePairing(o) \/ PairingLapses(o)
  \/ \E o \in Code, k \in KeyText : ClaimPairing(o, k)
  \/ \E r \in Request, d \in Device : AskChallenge(r, d)
  \/ \E r \in Request, a \in Act : AskAdminChallenge(r, a)
  \/ \E r \in Request : InsertChallenge(r) \/ Perform(r) \/ EndRequest(r)
  \/ \E c \in Challenge :
       Sign(c) \/ ExchangeToken(c) \/ ExchangeAdminToken(c) \/ ChallengeLapses(c)
  \/ \E r \in Request, t \in Token : Authorize(r, t)
  \/ \E r \in Request, a \in Act, t \in Token : ConsumeActionToken(r, a, t)
  \/ \E d \in Device : RevokeDevice(d)
  \/ \E t \in Token : TokenLapses(t)

AuthSpec == AuthInit /\ [][AuthNext]_authVars

-----------------------------------------------------------------------------
(* Properties *)

\* Every row has the columns the schema declares.
AuthTypeOK ==
  /\ devices \in [Device -> DeviceRow]
  /\ pairings \in [Code -> {"none", "open", "used", "lapsed"}]
  /\ challenges \in [Challenge -> ChallengeRow]
  /\ signed \subseteq Challenge
  /\ tokens \in [Token -> TokenRow]
  /\ requests \in [Request -> RequestRow]
  /\ acts \in [Token -> Seq(Device \X Act)]

Issued(d, p) == {t \in Token : tokens[t].state # "none" /\ tokens[t].device = d
                               /\ tokens[t].purpose = p}

Agreed(d, p) == {c \in Challenge : challenges[c].state = "used" /\ c \in signed
                                   /\ challenges[c].device = d /\ challenges[c].purpose = p}

\* One-time means one time: a device has exactly one token for each challenge
\* its key signed for that purpose and that was exchanged, and there is exactly
\* one device for each pairing code that was claimed, in whatever order clients
\* claim, sign, exchange and retry.
SingleUse ==
  /\ \A d \in Device, p \in Purpose : Cardinality(Issued(d, p)) = Cardinality(Agreed(d, p))
  /\ Cardinality({d \in Device : devices[d].status # "none"})
       = Cardinality({o \in Code : pairings[o] = "used"})

\* Revoking a device takes all its usable tokens with it and the registration
\* never has one again, in spite of challenges it still has open, of exchanges
\* that were on their way and of requests that looked at it before.  (This is
\* about the row that was revoked: not about its key registered anew under
\* another spelling, nor about metadata restored from before the revocation.)
RevokedHasNothing ==
  \A d \in Device :
    devices[d].status = "revoked" =>
      \A t \in Token : tokens[t].state = "live" => tokens[t].device # d

\* Whatever was deleted or purged over HTTP was confirmed by its own action
\* token, at most one act for each, for exactly the device, action and path
\* that the token was issued for.
ActsConfirmed ==
  \A t \in Token :
    acts[t] # <<>> =>
      /\ tokens[t].state = "spent"
      /\ acts[t] = << <<tokens[t].device, tokens[t].purpose>> >>
=============================================================================
