-------------------------- MODULE DeviceAuthProofs --------------------------
(***************************************************************************)
(* What DeviceAuth promises, for any sets of devices, codes, challenges,   *)
(* tokens, key texts, threads and acts.  AuthInv is inductive: beside the       *)
(* properties it says what lies behind each of them.                       *)
(***************************************************************************)
EXTENDS DeviceAuth, FiniteSetTheorems, TLAPS

\* A confirmed request holds a spent token of its own that has done nothing yet.
Holding ==
  \A r \in Request :
    requests[r].pc = "confirmed" =>
      LET t == requests[r].token IN
      /\ tokens[t].state = "spent"
      /\ tokens[t].device = requests[r].device
      /\ tokens[t].purpose = requests[r].purpose
      /\ acts[t] = <<>>
      /\ \A q \in Request : requests[q].pc = "confirmed" /\ requests[q].token = t => q = r

\* Live tokens belong to active devices, challenges to devices that exist, and
\* tokens that are not issued to nobody.
LiveOwned ==
  /\ \A t \in Token : tokens[t].state = "live" => tokens[t].device \in Device
                                                  /\ Active(tokens[t].device)
  /\ \A c \in Challenge : challenges[c].state # "none" => challenges[c].device \in Device
  /\ \A t \in Token : tokens[t].state = "none" => tokens[t].device = NoDevice

AuthInv == AuthTypeOK /\ Holding /\ LiveOwned /\ ActsConfirmed

USE DEF Purpose, Proceed, Active

-----------------------------------------------------------------------------
LEMMA AuthInitInv == AuthInit => AuthInv
  BY AuthAssumption, SMT DEF AuthInit, AuthInv, AuthTypeOK, Holding, LiveOwned, ActsConfirmed,
     DeviceRow, ChallengeRow, TokenRow, RequestRow, IdleRequest

\* A row whose state alone changes is a row.
LEMMA StateColumn ==
  /\ \A row \in TokenRow, s \in {"none", "live", "spent", "lapsed"} :
       [row EXCEPT !.state = s] \in TokenRow
  /\ \A row \in ChallengeRow, s \in {"none", "open", "used", "lapsed"} :
       [row EXCEPT !.state = s] \in ChallengeRow
  /\ \A row \in DeviceRow, s \in {"none", "active", "revoked"} :
       [row EXCEPT !.status = s] \in DeviceRow
  BY DEF TokenRow, ChallengeRow, DeviceRow

\* What the rows of requests are, by what they are doing.
LEMMA RequestRows ==
  ASSUME NEW row \in RequestRow
  PROVE  /\ row = [pc |-> row.pc, device |-> row.device, purpose |-> row.purpose,
                   token |-> row.token]
         /\ row.pc \in {"idle", "challenge", "authorised", "confirmed"}
         /\ row.pc # "idle" => row.device \in Device
         /\ row.pc = "challenge" => row.purpose \in Purpose
         /\ row.pc = "authorised" => row.purpose = Login /\ row.token = NoToken
         /\ row.pc = "confirmed" => row.purpose \in Act /\ row.token \in Token
  BY DEF RequestRow, IdleRequest

\* The rows that requests proceed to.
LEMMA NextRows ==
  /\ IdleRequest \in RequestRow
  /\ \A d \in Device :
       /\ [IdleRequest EXCEPT !.pc = "challenge", !.device = d] \in RequestRow
       /\ [IdleRequest EXCEPT !.pc = "authorised", !.device = d] \in RequestRow
  /\ \A row \in RequestRow, a \in Act :
       row.pc = "authorised" =>
         /\ [row EXCEPT !.pc = "challenge", !.purpose = a] \in RequestRow
         /\ \A t \in Token :
              [row EXCEPT !.pc = "confirmed", !.purpose = a, !.token = t] \in RequestRow
<1>1. /\ IdleRequest \in RequestRow
      /\ \A d \in Device :
           /\ [IdleRequest EXCEPT !.pc = "challenge", !.device = d] \in RequestRow
           /\ [IdleRequest EXCEPT !.pc = "authorised", !.device = d] \in RequestRow
  BY DEF RequestRow, IdleRequest
<1>2. ASSUME NEW row \in RequestRow, NEW a \in Act, row.pc = "authorised"
      PROVE  /\ [row EXCEPT !.pc = "challenge", !.purpose = a] \in RequestRow
             /\ \A t \in Token :
                  [row EXCEPT !.pc = "confirmed", !.purpose = a, !.token = t] \in RequestRow
  <2>1. row \in [pc : {"authorised"}, device : Device, purpose : {Login}, token : {NoToken}]
    BY <1>2 DEF RequestRow, IdleRequest
  <2>2. [row EXCEPT !.pc = "challenge", !.purpose = a]
          \in [pc : {"challenge"}, device : Device, purpose : Purpose, token : {NoToken}]
    BY <2>1
  <2>3. ASSUME NEW t \in Token
        PROVE  [row EXCEPT !.pc = "confirmed", !.purpose = a, !.token = t]
                 \in [pc : {"confirmed"}, device : Device, purpose : Act, token : Token]
    BY <2>1
  <2>4. QED
    BY <2>2, <2>3 DEF RequestRow
<1>3. QED
  BY <1>1, <1>2

\* Rows change by their own columns only.
LEMMA AuthTyped ==
  ASSUME AuthTypeOK, LiveOwned, AuthNext
  PROVE  AuthTypeOK'
<1> USE DEF AuthTypeOK
<1>1. ASSUME NEW o \in Code, CreatePairing(o) \/ PairingLapses(o) PROVE AuthTypeOK'
  BY <1>1 DEF CreatePairing, PairingLapses
<1>2. ASSUME NEW o \in Code, NEW k \in KeyText, ClaimPairing(o, k) PROVE AuthTypeOK'
  BY <1>2 DEF ClaimPairing, DeviceRow
<1>3. ASSUME NEW r \in Request, NEW d \in Device, AskChallenge(r, d) PROVE AuthTypeOK'
  <2>1. [IdleRequest EXCEPT !.pc = "challenge", !.device = d] \in RequestRow
    BY NextRows
  <2>2. requests' \in [Request -> RequestRow]
    BY <1>3, <2>1, Zenon DEF AskChallenge
  <2>3. QED
    BY <1>3, <2>2 DEF AskChallenge
<1>4. ASSUME NEW r \in Request, NEW a \in Act, AskAdminChallenge(r, a) PROVE AuthTypeOK'
  <2>1. [requests[r] EXCEPT !.pc = "challenge", !.purpose = a] \in RequestRow
    BY <1>4, NextRows, Zenon DEF AskAdminChallenge
  <2>2. requests' \in [Request -> RequestRow]
    BY <1>4, <2>1, Zenon DEF AskAdminChallenge
  <2>3. QED
    BY <1>4, <2>2 DEF AskAdminChallenge
<1>5. ASSUME NEW r \in Request, InsertChallenge(r) PROVE AuthTypeOK'
  <2>1. requests[r].device \in Device /\ requests[r].purpose \in Purpose
    BY <1>5, RequestRows DEF InsertChallenge
  <2>2. challenges' \in [Challenge -> ChallengeRow]
    BY <1>5, <2>1 DEF InsertChallenge, ChallengeRow
  <2>3. requests' \in [Request -> RequestRow]
    BY <1>5 DEF InsertChallenge, RequestRow
  <2>4. QED
    BY <1>5, <2>2, <2>3 DEF InsertChallenge
<1>6. ASSUME NEW r \in Request, Perform(r) PROVE AuthTypeOK'
  <2>1. /\ requests[r].device \in Device /\ requests[r].purpose \in Act
        /\ requests[r].token \in Token
    BY <1>6, RequestRows DEF Perform
  <2>2. acts' \in [Token -> Seq(Device \X Act)]
    BY <1>6, <2>1 DEF Perform
  <2>3. requests' \in [Request -> RequestRow]
    BY <1>6 DEF Perform, RequestRow
  <2>4. QED
    BY <1>6, <2>2, <2>3 DEF Perform
<1>7. ASSUME NEW r \in Request, EndRequest(r) PROVE AuthTypeOK'
  BY <1>7 DEF EndRequest, RequestRow
<1>8. ASSUME NEW c \in Challenge, Sign(c) PROVE AuthTypeOK'
  BY <1>8 DEF Sign
<1>9. ASSUME NEW c \in Challenge, ChallengeLapses(c) PROVE AuthTypeOK'
  BY <1>9, StateColumn DEF ChallengeLapses
<1>10. ASSUME NEW c \in Challenge, Grant(c) PROVE AuthTypeOK'
  <2>1. /\ challenges[c].device \in Device \cup {NoDevice} /\ challenges[c].purpose \in Purpose
    BY DEF ChallengeRow
  <2>2. tokens' \in [Token -> TokenRow]
    BY <1>10, <2>1 DEF Grant, TokenRow
  <2>3. challenges' \in [Challenge -> ChallengeRow]
    BY <1>10, StateColumn DEF Grant
  <2>4. QED
    BY <1>10, <2>2, <2>3 DEF Grant
<1>11. ASSUME NEW r \in Request, NEW t \in Token, Authorize(r, t) PROVE AuthTypeOK'
  <2>1. tokens[t].device \in Device
    BY <1>11 DEF Authorize, LiveOwned
  <2>2. [IdleRequest EXCEPT !.pc = "authorised", !.device = tokens[t].device] \in RequestRow
    BY <2>1, NextRows
  <2>3. requests' \in [Request -> RequestRow]
    BY <1>11, <2>2, Zenon DEF Authorize
  <2>4. QED
    BY <1>11, <2>3 DEF Authorize
<1>12. ASSUME NEW r \in Request, NEW a \in Act, NEW t \in Token, ConsumeActionToken(r, a, t)
       PROVE  AuthTypeOK'
  <2> DEFINE row == [requests[r] EXCEPT !.pc = "confirmed", !.purpose = a, !.token = t]
  <2>4. row \in RequestRow
    BY <1>12, NextRows, Zenon DEF ConsumeActionToken
  <2>1. requests' \in [Request -> RequestRow]
    BY <1>12, <2>4, Zenon DEF ConsumeActionToken
  <2>2. tokens' \in [Token -> TokenRow]
    BY <1>12, StateColumn DEF ConsumeActionToken
  <2>3. QED
    BY <1>12, <2>1, <2>2 DEF ConsumeActionToken
<1>13. ASSUME NEW d \in Device, RevokeDevice(d) PROVE AuthTypeOK'
  <2>1. devices' \in [Device -> DeviceRow]
    BY <1>13, StateColumn DEF RevokeDevice
  <2>2. tokens' \in [Token -> TokenRow]
    BY <1>13, StateColumn DEF RevokeDevice
  <2>3. QED
    BY <1>13, <2>1, <2>2 DEF RevokeDevice
<1>14. ASSUME NEW t \in Token, TokenLapses(t) PROVE AuthTypeOK'
  BY <1>14, StateColumn DEF TokenLapses
<1>15. QED
  BY <1>1, <1>2, <1>3, <1>4, <1>5, <1>6, <1>7, <1>8, <1>9, <1>10, <1>11, <1>12, <1>13, <1>14
     DEF AuthNext, ExchangeToken, ExchangeAdminToken

\* Setting a token's state leaves its other columns and the other tokens alone.
LEMMA TokenState ==
  ASSUME AuthTypeOK, NEW t \in Token, NEW s \in {"spent", "lapsed"},
         tokens' = [tokens EXCEPT ![t].state = s]
  PROVE  /\ tokens'[t].state = s
         /\ \A u \in Token : /\ tokens'[u].device = tokens[u].device
                             /\ tokens'[u].purpose = tokens[u].purpose
                             /\ u # t => tokens'[u] = tokens[u]
  BY DEF AuthTypeOK, TokenRow

\* What the steps of a request leave of its row.
LEMMA Proceeded ==
  ASSUME AuthTypeOK, NEW r \in Request, NEW row, Proceed(r, row)
  PROVE  /\ requests'[r] = row
         /\ \A q \in Request : q # r => requests'[q] = requests[q]
  BY DEF AuthTypeOK

LEMMA HoldingKept ==
  ASSUME AuthInv, AuthNext
  PROVE  Holding'
<1> USE DEF AuthInv
<1>0. AuthTypeOK
  OBVIOUS
\* A request that proceeds, not by being confirmed, only drops what it held.
<1>1. ASSUME NEW r \in Request, NEW row, Proceed(r, row), row.pc # "confirmed",
             UNCHANGED <<tokens, acts>>
      PROVE  Holding'
  <2>1. requests'[r] = row /\ \A q \in Request : q # r => requests'[q] = requests[q]
    BY <1>0, <1>1, Proceeded, Zenon
  <2>2. QED
    BY <1>1, <2>1 DEF Holding
<1>2. ASSUME NEW o \in Code, CreatePairing(o) \/ PairingLapses(o) PROVE Holding'
  BY <1>2 DEF CreatePairing, PairingLapses, Holding
<1>3. ASSUME NEW o \in Code, NEW k \in KeyText, ClaimPairing(o, k) PROVE Holding'
  BY <1>3 DEF ClaimPairing, Holding
<1>4. ASSUME NEW r \in Request, NEW d \in Device, AskChallenge(r, d) PROVE Holding'
  <2>1. [IdleRequest EXCEPT !.pc = "challenge", !.device = d].pc # "confirmed"
    BY DEF IdleRequest
  <2>2. QED
    BY <1>1, <1>4, <2>1, Zenon DEF AskChallenge
<1>5. ASSUME NEW r \in Request, NEW a \in Act, AskAdminChallenge(r, a) PROVE Holding'
  <2>1. [requests[r] EXCEPT !.pc = "challenge", !.purpose = a].pc # "confirmed"
    BY <1>0, <1>5, RequestRows DEF AuthTypeOK, AskAdminChallenge
  <2>2. QED
    BY <1>1, <1>5, <2>1 DEF AskAdminChallenge
<1>6. ASSUME NEW r \in Request, InsertChallenge(r) \/ EndRequest(r) PROVE Holding'
  <2>1. IdleRequest.pc # "confirmed"
    BY DEF IdleRequest
  <2>2. QED
    BY <1>1, <1>6, <2>1, Zenon DEF InsertChallenge, EndRequest
<1>7. ASSUME NEW r \in Request, Perform(r) PROVE Holding'
  <2>1. requests'[r] = IdleRequest /\ \A q \in Request : q # r => requests'[q] = requests[q]
    BY <1>0, <1>7, Proceeded DEF Perform
  <2>2. \A q \in Request : q # r /\ requests[q].pc = "confirmed" =>
          acts'[requests[q].token] = acts[requests[q].token]
    BY <1>7, RequestRows DEF Perform, Holding, AuthTypeOK
  <2>3. QED
    BY <1>7, <2>1, <2>2 DEF Perform, Holding, IdleRequest
<1>8. ASSUME NEW c \in Challenge, Sign(c) \/ ChallengeLapses(c) PROVE Holding'
  BY <1>8 DEF Sign, ChallengeLapses, Holding
<1>9. ASSUME NEW c \in Challenge, Grant(c) PROVE Holding'
  <2>1. PICK t \in Token :
          /\ tokens[t].state = "none"
          /\ tokens' = [tokens EXCEPT ![t] = [state |-> "live", device |-> challenges[c].device,
                                              purpose |-> challenges[c].purpose]]
    BY <1>9 DEF Grant
  <2>2. \A u \in Token : tokens[u].state = "spent" => tokens'[u] = tokens[u]
    BY <2>1 DEF AuthTypeOK
  <2>3. \A r \in Request : requests[r].pc = "confirmed" => requests[r].token \in Token
    BY RequestRows DEF AuthTypeOK
  <2>4. QED
    BY <1>9, <2>2, <2>3 DEF Grant, Holding
<1>10. ASSUME NEW r \in Request, NEW t \in Token, Authorize(r, t) PROVE Holding'
  <2>1. [IdleRequest EXCEPT !.pc = "authorised", !.device = tokens[t].device].pc # "confirmed"
    BY DEF IdleRequest
  <2>2. QED
    BY <1>1, <1>10, <2>1, Zenon DEF Authorize
<1>11. ASSUME NEW r \in Request, NEW a \in Act, NEW t \in Token, ConsumeActionToken(r, a, t)
       PROVE  Holding'
  <2> DEFINE row == [requests[r] EXCEPT !.pc = "confirmed", !.purpose = a, !.token = t]
  <2>1. /\ row.device = requests[r].device /\ row.purpose = a /\ row.token = t
        /\ tokens[t].state = "live" /\ tokens[t].device = row.device /\ tokens[t].purpose = a
    BY <1>11, RequestRows DEF ConsumeActionToken, AuthTypeOK
  <2>2. requests'[r] = row /\ \A q \in Request : q # r => requests'[q] = requests[q]
    BY <1>0, <1>11, Proceeded DEF ConsumeActionToken
  <2>3. /\ tokens'[t].state = "spent"
        /\ \A u \in Token : /\ tokens'[u].device = tokens[u].device
                            /\ tokens'[u].purpose = tokens[u].purpose
                            /\ u # t => tokens'[u] = tokens[u]
    BY <1>0, <1>11, TokenState DEF ConsumeActionToken
  <2>4. acts'[t] = <<>>
    BY <1>11, <2>1 DEF ConsumeActionToken, ActsConfirmed
  <2>5. \A q \in Request : q # r /\ requests[q].pc = "confirmed" =>
          requests[q].token \in Token /\ requests[q].token # t
    BY <2>1, RequestRows DEF AuthTypeOK, Holding
  <2>6. acts' = acts
    BY <1>11 DEF ConsumeActionToken
  <2> HIDE DEF row
  <2>7. QED
    BY <2>1, <2>2, <2>3, <2>4, <2>5, <2>6 DEF Holding
<1>12. ASSUME NEW d \in Device, RevokeDevice(d) PROVE Holding'
  <2>1. \A u \in Token : tokens[u].state = "spent" =>
          /\ tokens'[u].state = "spent"
          /\ tokens'[u].device = tokens[u].device
          /\ tokens'[u].purpose = tokens[u].purpose
    BY <1>12 DEF RevokeDevice, AuthTypeOK, TokenRow
  <2>2. \A r \in Request : requests[r].pc = "confirmed" => requests[r].token \in Token
    BY RequestRows DEF AuthTypeOK
  <2>3. QED
    BY <1>12, <2>1, <2>2 DEF RevokeDevice, Holding
<1>13. ASSUME NEW t \in Token, TokenLapses(t) PROVE Holding'
  <2>1. \A u \in Token : tokens[u].state = "spent" => tokens'[u] = tokens[u]
    BY <1>13 DEF TokenLapses, AuthTypeOK
  <2>2. \A r \in Request : requests[r].pc = "confirmed" => requests[r].token \in Token
    BY RequestRows DEF AuthTypeOK
  <2>3. QED
    BY <1>13, <2>1, <2>2 DEF TokenLapses, Holding
<1>14. QED
  BY <1>2, <1>3, <1>4, <1>5, <1>6, <1>7, <1>8, <1>9, <1>10, <1>11, <1>12, <1>13
     DEF AuthNext, ExchangeToken, ExchangeAdminToken

LEMMA ActsKept ==
  ASSUME AuthInv, AuthNext
  PROVE  ActsConfirmed'
<1> USE DEF AuthInv
<1>0. AuthTypeOK
  OBVIOUS
<1>1. ASSUME UNCHANGED <<tokens, acts>>
      PROVE  ActsConfirmed'
  BY <1>1 DEF ActsConfirmed
\* A token that was used keeps its columns, and stays spent.
<1>2. ASSUME UNCHANGED acts,
             \A u \in Token : tokens[u].state = "spent" =>
               /\ tokens'[u].state = "spent"
               /\ tokens'[u].device = tokens[u].device
               /\ tokens'[u].purpose = tokens[u].purpose
      PROVE  ActsConfirmed'
  BY <1>2 DEF ActsConfirmed
<1>3. ASSUME NEW c \in Challenge, Grant(c) PROVE ActsConfirmed'
  BY <1>2, <1>3 DEF Grant, AuthTypeOK
<1>4. ASSUME NEW r \in Request, Perform(r) PROVE ActsConfirmed'
  <2> DEFINE t == requests[r].token
  <2>1. t \in Token
    BY <1>4, RequestRows DEF Perform, AuthTypeOK
  <2>2. /\ tokens[t].state = "spent" /\ acts[t] = <<>>
        /\ tokens[t].device = requests[r].device /\ tokens[t].purpose = requests[r].purpose
    BY <1>4 DEF Perform, Holding
  <2>3. acts'[t] = << <<requests[r].device, requests[r].purpose>> >>
    BY <1>4, <2>1, <2>2 DEF Perform, AuthTypeOK
  <2>4. \A u \in Token : u # t => acts'[u] = acts[u]
    BY <1>4, <2>1 DEF Perform, AuthTypeOK
  <2>5. tokens' = tokens
    BY <1>4 DEF Perform
  <2> HIDE DEF t
  <2>6. QED
    BY <2>1, <2>2, <2>3, <2>4, <2>5 DEF ActsConfirmed
<1>5. ASSUME NEW r \in Request, NEW a \in Act, NEW t \in Token, ConsumeActionToken(r, a, t)
      PROVE  ActsConfirmed'
  <2>1. tokens' = [tokens EXCEPT ![t].state = "spent"] /\ UNCHANGED acts
    BY <1>5 DEF ConsumeActionToken
  <2>2. QED
    BY <1>0, <1>2, <2>1, TokenState
<1>6. ASSUME NEW d \in Device, RevokeDevice(d) PROVE ActsConfirmed'
  <2>1. \A u \in Token : tokens[u].state = "spent" =>
          /\ tokens'[u].state = "spent"
          /\ tokens'[u].device = tokens[u].device
          /\ tokens'[u].purpose = tokens[u].purpose
    BY <1>6 DEF RevokeDevice, AuthTypeOK, TokenRow
  <2>2. QED
    BY <1>2, <1>6, <2>1 DEF RevokeDevice
<1>7. ASSUME NEW t \in Token, TokenLapses(t) PROVE ActsConfirmed'
  BY <1>2, <1>7 DEF TokenLapses, AuthTypeOK
<1>8. QED
  BY <1>1, <1>3, <1>4, <1>5, <1>6, <1>7
     DEF AuthNext, ExchangeToken, ExchangeAdminToken, CreatePairing, PairingLapses, ClaimPairing,
         AskChallenge, AskAdminChallenge, InsertChallenge, EndRequest, Sign, ChallengeLapses,
         Authorize

LEMMA LiveOwnedKept ==
  ASSUME AuthInv, AuthNext
  PROVE  LiveOwned'
<1> USE DEF AuthInv
<1>0. AuthTypeOK
  OBVIOUS
<1>1. ASSUME UNCHANGED <<devices, tokens>>,
             \A c \in Challenge : challenges'[c].state # "none" => challenges'[c].device \in Device
      PROVE  LiveOwned'
  BY <1>1 DEF LiveOwned
<1>2. ASSUME UNCHANGED <<devices, tokens, challenges>> PROVE LiveOwned'
  BY <1>2 DEF LiveOwned
<1>3. ASSUME NEW o \in Code, NEW k \in KeyText, ClaimPairing(o, k) PROVE LiveOwned'
  <2>1. \A d \in Device : Active(d) => devices'[d] = devices[d]
    BY <1>3 DEF ClaimPairing, AuthTypeOK
  <2>2. QED
    BY <1>3, <2>1 DEF ClaimPairing, LiveOwned
<1>4. ASSUME NEW r \in Request, InsertChallenge(r) PROVE LiveOwned'
  <2>1. requests[r].device \in Device
    BY <1>4, RequestRows DEF InsertChallenge, AuthTypeOK
  <2>2. \A c \in Challenge : challenges'[c].state # "none" => challenges'[c].device \in Device
    BY <1>4, <2>1 DEF InsertChallenge, AuthTypeOK, LiveOwned
  <2>3. QED
    BY <1>1, <1>4, <2>2 DEF InsertChallenge
<1>5. ASSUME NEW c \in Challenge, ChallengeLapses(c) PROVE LiveOwned'
  <2>1. \A b \in Challenge : challenges'[b].state # "none" => challenges'[b].device \in Device
    BY <1>5 DEF ChallengeLapses, AuthTypeOK, ChallengeRow, LiveOwned
  <2>2. QED
    BY <1>1, <1>5, <2>1 DEF ChallengeLapses
<1>6. ASSUME NEW c \in Challenge, Grant(c) PROVE LiveOwned'
  <2>1. challenges[c].device \in Device /\ Active(challenges[c].device)
    BY <1>6 DEF Grant, LiveOwned
  <2>2. \A t \in Token : tokens'[t].state = "live" =>
          tokens'[t].device \in Device /\ Active(tokens'[t].device)
    BY <1>6, <2>1 DEF Grant, AuthTypeOK, LiveOwned
  <2>3. \A b \in Challenge : challenges'[b].state # "none" => challenges'[b].device \in Device
    BY <1>6, <2>1 DEF Grant, AuthTypeOK, ChallengeRow, LiveOwned
  <2>4. \A t \in Token : tokens'[t].state = "none" => tokens'[t].device = NoDevice
    BY <1>6 DEF Grant, AuthTypeOK, LiveOwned
  <2>5. devices' = devices
    BY <1>6 DEF Grant
  <2>6. QED
    BY <2>2, <2>3, <2>4, <2>5 DEF LiveOwned
<1>7. ASSUME NEW t \in Token, NEW s \in {"spent", "lapsed"},
             tokens' = [tokens EXCEPT ![t].state = s], UNCHANGED <<devices, challenges>>
      PROVE  LiveOwned'
  <2>1. \A u \in Token : tokens'[u].state \in {"none", "live"} => tokens'[u] = tokens[u]
    BY <1>0, <1>7, TokenState
  <2>2. QED
    BY <1>7, <2>1 DEF LiveOwned
<1>8. ASSUME NEW r \in Request, NEW a \in Act, NEW t \in Token, ConsumeActionToken(r, a, t)
      PROVE  LiveOwned'
  BY <1>7, <1>8 DEF ConsumeActionToken
<1>9. ASSUME NEW t \in Token, TokenLapses(t) PROVE LiveOwned'
  BY <1>7, <1>9 DEF TokenLapses
<1>10. ASSUME NEW d \in Device, RevokeDevice(d) PROVE LiveOwned'
  <2>1. \A u \in Token : tokens'[u].state \in {"none", "live"} =>
          tokens'[u] = tokens[u] /\ tokens[u].device # d
    BY <1>10 DEF RevokeDevice, AuthTypeOK, TokenRow
  <2>2. \A e \in Device : e # d => devices'[e] = devices[e]
    BY <1>10 DEF RevokeDevice, AuthTypeOK
  <2>3. QED
    BY <1>10, <2>1, <2>2 DEF RevokeDevice, LiveOwned
<1>11. QED
  BY <1>2, <1>3, <1>4, <1>5, <1>6, <1>8, <1>9, <1>10
     DEF AuthNext, ExchangeToken, ExchangeAdminToken, CreatePairing, PairingLapses, Perform,
         AskChallenge, AskAdminChallenge, EndRequest, Sign, Authorize

LEMMA AuthInvKept == AuthInv /\ [AuthNext]_authVars => AuthInv'
<1>1. ASSUME AuthInv, AuthNext PROVE AuthInv'
  BY <1>1, AuthTyped, HoldingKept, ActsKept, LiveOwnedKept DEF AuthInv
<1>2. ASSUME AuthInv, UNCHANGED authVars PROVE AuthInv'
  BY <1>2 DEF authVars, AuthInv, AuthTypeOK, Holding, LiveOwned, ActsConfirmed
<1>3. QED
  BY <1>1, <1>2

\* AuthInv holds of every state of DeviceAuth.
THEOREM AuthSafe == AuthSpec => []AuthInv
  BY AuthInitInv, AuthInvKept, PTL DEF AuthSpec

\* Rows of devices, challenges, tokens and requests keep to their columns: a
\* request never acts unless a token confirmed an act to it.
THEOREM AuthTypes == AuthSpec => []AuthTypeOK
<1>1. AuthInv => AuthTypeOK
  BY DEF AuthInv
<1>2. QED
  BY <1>1, AuthSafe, PTL

\* However many requests carry one action token, through failures and
\* revocations, at most one of them acts, and only as the token says.
THEOREM ActsAreConfirmed == AuthSpec => []ActsConfirmed
<1>1. AuthInv => ActsConfirmed
  BY DEF AuthInv
<1>2. QED
  BY <1>1, AuthSafe, PTL

\* A device that was revoked has no usable token, then or later: neither its old
\* ones nor one granted for a challenge it still had open.
THEOREM RevocationHolds == AuthSpec => []RevokedHasNothing
<1>1. AuthInv => RevokedHasNothing
  BY DEF AuthInv, LiveOwned, RevokedHasNothing
<1>2. QED
  BY <1>1, AuthSafe, PTL

-----------------------------------------------------------------------------
(* Counting *)

Registered == {d \in Device : devices[d].status # "none"}

Claimed == {o \in Code : pairings[o] = "used"}

\* The sets that SingleUse counts are finite in every state: they grow one by one.
Counted ==
  /\ \A c \in Challenge : challenges[c].state = "used" => c \in signed
  /\ \A d \in Device, p \in Purpose : /\ IsFiniteSet(Issued(d, p)) /\ IsFiniteSet(Agreed(d, p))
                                      /\ Cardinality(Issued(d, p)) = Cardinality(Agreed(d, p))
  /\ IsFiniteSet(Registered) /\ IsFiniteSet(Claimed)
  /\ Cardinality(Registered) = Cardinality(Claimed)

LEMMA CountedInit == AuthInit => Counted
<1> SUFFICES ASSUME AuthInit PROVE Counted
  OBVIOUS
<1>1. \A d \in Device, p \in Purpose : Issued(d, p) = {} /\ Agreed(d, p) = {}
  BY DEF AuthInit, Issued, Agreed
<1>2. Registered = {} /\ Claimed = {}
  BY DEF AuthInit, Registered, Claimed
<1>3. \A c \in Challenge : challenges[c].state # "used"
  BY DEF AuthInit
<1>4. QED
  BY <1>1, <1>2, <1>3, FS_EmptySet DEF Counted

LEMMA CountedKept ==
  ASSUME AuthInv, Counted, AuthNext
  PROVE  Counted'
<1>0. AuthTypeOK
  BY DEF AuthInv
<1>1. ASSUME UNCHANGED <<devices, pairings, challenges, signed, tokens>> PROVE Counted'
  BY <1>1 DEF Counted, Issued, Agreed, Registered, Claimed
\* Tokens and challenges that change without being issued or used.
<1>2. ASSUME \A t \in Token : /\ tokens'[t].state = "none" <=> tokens[t].state = "none"
                              /\ tokens[t].state # "none" =>
                                   /\ tokens'[t].device = tokens[t].device
                                   /\ tokens'[t].purpose = tokens[t].purpose,
             \A c \in Challenge : /\ challenges'[c].state = "used" <=> challenges[c].state = "used"
                                  /\ challenges[c].state = "used" => challenges'[c] = challenges[c],
             \A c \in Challenge : challenges[c].state = "used" => (c \in signed' <=> c \in signed)
      PROVE  /\ \A c \in Challenge : challenges'[c].state = "used" => c \in signed'
             /\ \A d \in Device, p \in Purpose : /\ Issued(d, p)' = Issued(d, p)
                                                 /\ Agreed(d, p)' = Agreed(d, p)
  BY <1>2 DEF Counted, Issued, Agreed
<1>3. ASSUME \A d \in Device : devices'[d].status = "none" <=> devices[d].status = "none",
             \A o \in Code : pairings'[o] = "used" <=> pairings[o] = "used"
      PROVE  Registered' = Registered /\ Claimed' = Claimed
  BY <1>3 DEF Registered, Claimed
<1>4. ASSUME \A c \in Challenge : challenges'[c].state = "used" => c \in signed',
             \A d \in Device, p \in Purpose : /\ Issued(d, p)' = Issued(d, p)
                                              /\ Agreed(d, p)' = Agreed(d, p),
             Registered' = Registered /\ Claimed' = Claimed
      PROVE  Counted'
  BY <1>4 DEF Counted
<1>5. ASSUME NEW o \in Code, CreatePairing(o) \/ PairingLapses(o) PROVE Counted'
  <2>1. \A b \in Code : pairings'[b] = "used" <=> pairings[b] = "used"
    BY <1>0, <1>5 DEF CreatePairing, PairingLapses, AuthTypeOK
  <2>2. UNCHANGED <<devices, challenges, signed, tokens>>
    BY <1>5 DEF CreatePairing, PairingLapses
  <2>3. QED
    BY <1>2, <1>3, <1>4, <2>1, <2>2
<1>6. ASSUME NEW o \in Code, NEW k \in KeyText, ClaimPairing(o, k) PROVE Counted'
  <2>1. PICK d \in Device :
          /\ devices[d].status = "none"
          /\ devices' = [devices EXCEPT ![d] = [status |-> "active", key |-> k]]
    BY <1>6 DEF ClaimPairing
  <2>2. Registered' = Registered \cup {d} /\ d \notin Registered
    BY <1>0, <2>1 DEF Registered, AuthTypeOK
  <2>3. Claimed' = Claimed \cup {o} /\ o \notin Claimed
    BY <1>0, <1>6 DEF Claimed, ClaimPairing, AuthTypeOK
  <2>4. /\ IsFiniteSet(Registered') /\ IsFiniteSet(Claimed')
        /\ Cardinality(Registered') = Cardinality(Claimed')
    <3>1. /\ IsFiniteSet(Registered) /\ IsFiniteSet(Claimed)
          /\ Cardinality(Registered) = Cardinality(Claimed)
      BY DEF Counted
    <3>2. /\ IsFiniteSet(Registered \cup {d})
          /\ Cardinality(Registered \cup {d}) = Cardinality(Registered) + 1
      BY <2>2, <3>1, FS_AddElement
    <3>3. /\ IsFiniteSet(Claimed \cup {o})
          /\ Cardinality(Claimed \cup {o}) = Cardinality(Claimed) + 1
      BY <2>3, <3>1, FS_AddElement
    <3>4. QED
      BY <2>2, <2>3, <3>1, <3>2, <3>3
  <2>5. /\ \A c \in Challenge : challenges'[c].state = "used" => c \in signed'
        /\ \A e \in Device, p \in Purpose : /\ Issued(e, p)' = Issued(e, p)
                                            /\ Agreed(e, p)' = Agreed(e, p)
    BY <1>2, <1>6 DEF ClaimPairing
  <2>6. QED
    BY <2>4, <2>5 DEF Counted
<1>7. ASSUME NEW r \in Request, InsertChallenge(r) PROVE Counted'
  <2>1. \A c \in Challenge : /\ challenges'[c].state = "used" <=> challenges[c].state = "used"
                             /\ challenges[c].state = "used" => challenges'[c] = challenges[c]
    BY <1>0, <1>7 DEF InsertChallenge, AuthTypeOK
  <2>2. QED
    BY <1>2, <1>3, <1>4, <1>7, <2>1 DEF InsertChallenge
<1>8. ASSUME NEW c \in Challenge, Sign(c) PROVE Counted'
  <2>1. \A b \in Challenge : challenges[b].state = "used" => (b \in signed' <=> b \in signed)
    BY <1>8 DEF Sign, Counted
  <2>2. QED
    BY <1>2, <1>3, <1>4, <1>8, <2>1 DEF Sign
<1>9. ASSUME NEW c \in Challenge, ChallengeLapses(c) PROVE Counted'
  <2>1. \A b \in Challenge : /\ challenges'[b].state = "used" <=> challenges[b].state = "used"
                             /\ challenges[b].state = "used" => challenges'[b] = challenges[b]
    BY <1>0, <1>9 DEF ChallengeLapses, AuthTypeOK, ChallengeRow
  <2>2. QED
    BY <1>2, <1>3, <1>4, <1>9, <2>1 DEF ChallengeLapses
<1>10. ASSUME NEW c \in Challenge, Grant(c) PROVE Counted'
  <2> DEFINE e == challenges[c].device
             q == challenges[c].purpose
  <2>1. PICK t \in Token :
          /\ tokens[t].state = "none"
          /\ tokens' = [tokens EXCEPT ![t] = [state |-> "live", device |-> e, purpose |-> q]]
    BY <1>10 DEF Grant
  <2>2. /\ tokens'[t] = [state |-> "live", device |-> e, purpose |-> q]
        /\ \A u \in Token : u # t => tokens'[u] = tokens[u]
    BY <1>0, <2>1 DEF AuthTypeOK
  <2>3. /\ challenges[c].state = "open" /\ c \in signed /\ signed' = signed
        /\ challenges'[c].state = "used" /\ challenges'[c].device = e
        /\ challenges'[c].purpose = q
        /\ \A b \in Challenge : b # c => challenges'[b] = challenges[b]
    BY <1>0, <1>10 DEF Grant, AuthTypeOK, ChallengeRow
  <2> HIDE DEF e, q
  <2>4. ASSUME NEW d \in Device, NEW p \in Purpose
        PROVE  /\ IsFiniteSet(Issued(d, p)') /\ IsFiniteSet(Agreed(d, p)')
               /\ Cardinality(Issued(d, p)') = Cardinality(Agreed(d, p)')
    <3>1. /\ IsFiniteSet(Issued(d, p)) /\ IsFiniteSet(Agreed(d, p))
          /\ Cardinality(Issued(d, p)) = Cardinality(Agreed(d, p))
      BY DEF Counted
    <3>2. CASE d = e /\ p = q
      <4>1. Issued(d, p)' = Issued(d, p) \cup {t} /\ t \notin Issued(d, p)
        BY <2>1, <2>2, <3>2 DEF Issued
      <4>2. Agreed(d, p)' = Agreed(d, p) \cup {c} /\ c \notin Agreed(d, p)
        BY <2>3, <3>2 DEF Agreed
      <4>3. /\ IsFiniteSet(Issued(d, p) \cup {t})
            /\ Cardinality(Issued(d, p) \cup {t}) = Cardinality(Issued(d, p)) + 1
        BY <3>1, <4>1, FS_AddElement
      <4>4. /\ IsFiniteSet(Agreed(d, p) \cup {c})
            /\ Cardinality(Agreed(d, p) \cup {c}) = Cardinality(Agreed(d, p)) + 1
        BY <3>1, <4>2, FS_AddElement
      <4>5. QED
        BY <3>1, <4>1, <4>2, <4>3, <4>4
    <3>3. CASE ~(d = e /\ p = q)
      <4>1. Issued(d, p)' = Issued(d, p)
        BY <2>1, <2>2, <3>3 DEF Issued
      <4>2. Agreed(d, p)' = Agreed(d, p)
        BY <2>3, <3>3 DEF Agreed
      <4>3. QED
        BY <3>1, <4>1, <4>2
    <3>4. QED
      BY <3>2, <3>3
  <2>5. \A b \in Challenge : challenges'[b].state = "used" => b \in signed'
    BY <2>3 DEF Counted
  <2>6. Registered' = Registered /\ Claimed' = Claimed
    BY <1>10 DEF Grant, Registered, Claimed
  <2>7. QED
    BY <2>4, <2>5, <2>6 DEF Counted
<1>11. ASSUME NEW t \in Token, NEW s \in {"spent", "lapsed"}, tokens[t].state = "live",
              tokens' = [tokens EXCEPT ![t].state = s],
              UNCHANGED <<devices, pairings, challenges, signed>>
       PROVE  Counted'
  <2>1. \A u \in Token : /\ tokens'[u].state = "none" <=> tokens[u].state = "none"
                         /\ tokens'[u].device = tokens[u].device
                         /\ tokens'[u].purpose = tokens[u].purpose
    BY <1>0, <1>11, TokenState
  <2>2. QED
    BY <1>2, <1>3, <1>4, <1>11, <2>1
<1>12. ASSUME NEW r \in Request, NEW a \in Act, NEW t \in Token, ConsumeActionToken(r, a, t)
       PROVE  Counted'
  <2>1. /\ tokens[t].state = "live"
        /\ tokens' = [tokens EXCEPT ![t].state = "spent"]
        /\ UNCHANGED <<devices, pairings, challenges, signed>>
    BY <1>12 DEF ConsumeActionToken
  <2>2. QED
    BY <1>11, <2>1
<1>13. ASSUME NEW t \in Token, TokenLapses(t) PROVE Counted'
  BY <1>11, <1>13 DEF TokenLapses
<1>14. ASSUME NEW d \in Device, RevokeDevice(d) PROVE Counted'
  <2>1. \A u \in Token : /\ tokens'[u].state = "none" <=> tokens[u].state = "none"
                         /\ tokens[u].state # "none" =>
                              /\ tokens'[u].device = tokens[u].device
                              /\ tokens'[u].purpose = tokens[u].purpose
    <3>1. \A u \in Token : tokens[u].state = "none" => tokens[u].device # d
      BY AuthAssumption DEF AuthInv, LiveOwned
    <3>2. QED
      BY <1>0, <1>14, <3>1 DEF RevokeDevice, AuthTypeOK, TokenRow
  <2>2. \A e \in Device : devices'[e].status = "none" <=> devices[e].status = "none"
    BY <1>0, <1>14 DEF RevokeDevice, AuthTypeOK, DeviceRow
  <2>3. UNCHANGED <<pairings, challenges, signed>>
    BY <1>14 DEF RevokeDevice
  <2>4. QED
    BY <1>2, <1>3, <1>4, <2>1, <2>2, <2>3
<1>15. QED
  BY <1>1, <1>5, <1>6, <1>7, <1>8, <1>9, <1>10, <1>12, <1>13, <1>14
     DEF AuthNext, ExchangeToken, ExchangeAdminToken, Perform, AskChallenge, AskAdminChallenge,
         EndRequest, Authorize

\* Every exchanged challenge of a device and purpose has given it exactly one
\* token, every claimed code exactly one device.
THEOREM OneTimeOnly == AuthSpec => []SingleUse
<1>1. AuthInit => AuthInv /\ Counted
  BY AuthInitInv, CountedInit
<1>2. AuthInv /\ Counted /\ [AuthNext]_authVars => (AuthInv /\ Counted)'
  <2>1. ASSUME AuthInv, Counted, UNCHANGED authVars PROVE Counted'
    BY <2>1 DEF authVars, Counted, Issued, Agreed, Registered, Claimed
  <2>2. QED
    BY <2>1, AuthInvKept, CountedKept
<1>3. AuthInv /\ Counted => SingleUse
  BY DEF Counted, SingleUse, Registered, Claimed
<1>4. QED
  BY <1>1, <1>2, <1>3, PTL DEF AuthSpec
=============================================================================
