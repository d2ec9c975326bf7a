---------------------------- MODULE DeviceAccess ----------------------------
(***************************************************************************)
(* How a phone is paired and keeps its pair of tokens.                     *)
(*                                                                         *)
(* A phone reads a pairing token (QR code, page or typed code), exchanges  *)
(* it, when approval is required after the user has approved its request,  *)
(* for a pair of tokens, and from then on renews the pair with its refresh *)
(* token.  Four states are kept by TokenManager, AuthRegistry and          *)
(* PairingApprovalManager, each behind a lock of its own: the server's     *)
(* secret and the registry, which are files too, and the revoked nonces    *)
(* and the approvals, which are not.  A call takes the locks one after     *)
(* another, a phone gives up on a call the server still works on, and the  *)
(* program is restarted between any two steps.                             *)
(*                                                                         *)
(* A token is its nonce, the place where it was issued; a device is the    *)
(* nonce of its first refresh token.  Access tokens, which no call renews  *)
(* or looks up in the registry, go the way of the pair they come with.     *)
(***************************************************************************)
EXTENDS FiniteSets, Naturals, Sequences

CONSTANTS
    Phones,
    Requests,        \* requests the server works on at once
    Nobody,
    Torn,            \* a file that cannot be read
    MaxTokens,       \* bound: tokens ever issued
    MaxApproved,     \* bound: tokens ever issued when pairing has to be approved
    MaxAsks,         \* bound: requests for approval
    MaxTroubles      \* bound: restarts, failing writes, revocations of all, timeouts and expiries

ASSUME TokensAssumption == {MaxTokens, MaxApproved} \subseteq Nat /\ MaxApproved <= MaxTokens
ASSUME TornAssumption == \A devices \in [1..MaxTokens -> 0..MaxTokens] : devices # Torn
ASSUME PhonesAssumption == Nobody \notin Phones

VARIABLES
    token,           \* the tokens issued: kind, secret, device, and (history) the era
    secret,          \* serverSecret, numbered
    secretFile,
    revokedNonces,
    registered,      \* AuthRegistry: the refresh nonce of each device, or Torn: no registry
    registryFile,
    stale,           \* expired tokens
    approval,        \* pairing has to be approved
    pendingByID, pendingByNonce, approvedNonces, rejectedNonces,
    pairingCode,     \* the page shows a code
    phone,           \* what each phone holds
    request,
    asks, restarts, fails, secrets, giveUps,
    era,             \* history: how often all tokens were revoked
    collided,        \* history: two revocations of all tokens overlapped, or one failed
    barred,          \* history: a refresh the phone gave up on revoked its token ...
    replaced,        \* ... or replaced it in the registry
    granted          \* history: approved and not yet exchanged

tokens == <<token, secret, secretFile, revokedNonces, stale, secrets, era, collided>>
registry == <<registered, registryFile, fails>>
decisions == <<pendingByID, pendingByNonce, approvedNonces, rejectedNonces, asks, granted>>
phones == <<phone, barred, replaced, giveUps>>
fixed == <<approval, restarts>>
accessVars == <<tokens, registry, decisions, phones, fixed, pairingCode, request>>

Nonces == 1..MaxTokens
NoDevice == [n \in Nonces |-> 0]
Free == [op |-> "none", at |-> "idle", p |-> Nobody, n |-> 0, got |-> 0, live |-> FALSE]

Validate(n) == token[n].s = secret /\ n \notin revokedNonces /\ n \notin stale
IsRefreshNonceValid(n) == registered = Torn \/ registered[token[n].d] = n

Issue(kind, d) == token' = Append(token, [kind |-> kind, s |-> secret, d |-> d, era |-> era])
Room == Len(token) < IF approval THEN MaxApproved ELSE MaxTokens
LastToken == Len(token) + 1
Trouble == restarts + fails + giveUps + secrets + Cardinality(stale) <= MaxTroubles

\* --- A phone reads a pairing token --------------------------------------------

GeneratePairingToken(p) ==
    /\ Room /\ ~phone[p].waits /\ phone[p].pair = 0
    /\ Issue("pairing", 0)
    /\ phone' = [phone EXCEPT ![p].code = LastToken]
    /\ UNCHANGED <<secret, secretFile, revokedNonces, stale, secrets, era, collided,
                   registry, decisions, barred, replaced, giveUps, fixed, request>>

HandlePairInfo(p) == GeneratePairingToken(p) /\ UNCHANGED pairingCode
HandlePairQR(p) == GeneratePairingToken(p) /\ UNCHANGED pairingCode
HandlePairPage ==
    /\ Room /\ ~pairingCode /\ pairingCode' = TRUE
    /\ UNCHANGED <<tokens, registry, decisions, phones, fixed, request>>
\* The code is good for one pairing token, whoever types it first.
HandlePairCode(p) == pairingCode /\ pairingCode' = FALSE /\ GeneratePairingToken(p)
CodeExpires ==
    /\ Room /\ pairingCode /\ pairingCode' = FALSE
    /\ UNCHANGED <<tokens, registry, decisions, phones, fixed, request>>

\* --- Requests ----------------------------------------------------------------------

BeginRequest(p, r, op, at, n) ==
    /\ request[r].at = "idle" /\ ~phone[p].waits /\ n # 0
    /\ request' = [request EXCEPT ![r] = [op |-> op, at |-> at, p |-> p, n |-> n, got |-> 0, live |-> TRUE]]
    /\ phone' = [phone EXCEPT ![p].waits = TRUE]
    /\ UNCHANGED <<tokens, registry, decisions, barred, replaced, giveUps, fixed, pairingCode>>

HandleExchange(p, r) ==
    BeginRequest(p, r, "exchange", IF approval THEN "validate" ELSE "generate", phone[p].code)
HandleRefresh(p, r) == BeginRequest(p, r, "refresh", "validate", phone[p].pair)
HandleRevoke(p, r) == BeginRequest(p, r, "revoke", "validate", phone[p].pair)

Goto(r, at) == request' = [request EXCEPT ![r].at = at] /\ UNCHANGED phone
\* The answer reaches the phone when it still waits for it.
Answer(r, held) ==
    /\ request' = [request EXCEPT ![r] = Free]
    /\ phone' = IF request[r].live THEN [phone EXCEPT ![request[r].p] = [held EXCEPT !.waits = FALSE]] ELSE phone
Refuse(r) == Answer(r, phone[request[r].p])

\* The phone's timeout: the server works on.
GiveUp(p) ==
    /\ phone[p].waits /\ Trouble /\ giveUps' = giveUps + 1
    /\ phone' = [phone EXCEPT ![p].waits = FALSE]
    /\ request' = [r \in Requests |-> IF request[r].p = p THEN [request[r] EXCEPT !.live = FALSE] ELSE request[r]]
    /\ LET renewing == {request[r].at : r \in {q \in Requests : request[q].p = p /\ request[q].live /\ request[q].op = "refresh"}} IN
          /\ barred' = IF renewing \cap {"register", "answer"} # {} THEN barred \cup {p} ELSE barred
          /\ replaced' = IF "answer" \in renewing THEN replaced \cup {p} ELSE replaced
    /\ UNCHANGED <<tokens, registry, decisions, fixed, pairingCode>>

\* --- Approval -------------------------------------------------------------------------

ValidateToken(r) ==
    /\ request[r].at = "validate" /\ request[r].op # "revoke"
    /\ IF \/ ~Validate(request[r].n)
          \/ request[r].op = "refresh" /\ ~IsRefreshNonceValid(request[r].n)
       THEN Refuse(r)
       ELSE Goto(r, IF request[r].op = "exchange" THEN "status" ELSE "generate")
    /\ UNCHANGED <<tokens, registry, decisions, barred, replaced, giveUps, fixed, pairingCode>>

Status(n) ==
    IF n \in approvedNonces THEN "approved"
    ELSE IF n \in rejectedNonces THEN "rejected"
    ELSE IF pendingByNonce[n] # 0 THEN "pending" ELSE "none"

\* Mutant of CheckApproval: a rejection is looked for first.
CheckRejectedFirst(r) ==
    /\ request[r].at = "status"
    /\ IF request[r].n \in rejectedNonces THEN Refuse(r)
       ELSE IF Status(request[r].n) = "approved" THEN Goto(r, "generate")
       ELSE Goto(r, "ensure")
    /\ UNCHANGED <<tokens, registry, decisions, barred, replaced, giveUps, fixed, pairingCode>>

CheckApproval(r) ==
    /\ request[r].at = "status"
    /\ CASE Status(request[r].n) = "approved" -> Goto(r, "generate")
         [] Status(request[r].n) = "rejected" -> Refuse(r)
         [] OTHER -> Goto(r, "ensure")
    /\ UNCHANGED <<tokens, registry, decisions, barred, replaced, giveUps, fixed, pairingCode>>

\* The phone is told to ask again; the user sees its request.
EnsurePending(r) ==
    /\ request[r].at = "ensure"
    /\ LET n == request[r].n  id == pendingByNonce[n] IN
          IF id # 0 /\ pendingByID[id] # 0 THEN UNCHANGED decisions
          ELSE /\ asks < MaxAsks /\ asks' = asks + 1
               /\ pendingByID' = [pendingByID EXCEPT ![asks + 1] = n]
               /\ pendingByNonce' = [pendingByNonce EXCEPT ![n] = asks + 1]
               /\ UNCHANGED <<approvedNonces, rejectedNonces, granted>>
    /\ Refuse(r)
    /\ UNCHANGED <<tokens, registry, barred, replaced, giveUps, fixed, pairingCode>>

Decide(id) ==
    /\ pendingByID[id] # 0
    /\ pendingByID' = [pendingByID EXCEPT ![id] = 0]
    /\ pendingByNonce' = [pendingByNonce EXCEPT ![pendingByID[id]] = 0]
    /\ UNCHANGED <<asks, tokens, registry, phones, fixed, pairingCode, request>>

Approve(id) ==
    /\ Decide(id)
    /\ approvedNonces' = approvedNonces \cup {pendingByID[id]}
    /\ granted' = granted \cup {n \in {pendingByID[id]} : Validate(n)}
    /\ UNCHANGED rejectedNonces
Reject(id) ==
    /\ Decide(id)
    /\ rejectedNonces' = rejectedNonces \cup {pendingByID[id]}
    /\ UNCHANGED <<approvedNonces, granted>>

\* The user's clicks on the pairing page.
HandlePairingApprove(id) == Approve(id)
HandlePairingReject(id) == Reject(id)

\* --- Exchange and refresh: a new pair, the old token revoked, the device registered --------

\* A pair signed while the secret changes is refused by its own check.
GenerateTokenPair(r) ==
    /\ request[r].at = "generate"
    /\ \/ /\ Validate(request[r].n) /\ Room
          /\ Issue("refresh", IF request[r].op = "exchange" THEN LastToken ELSE token[request[r].n].d)
          /\ request' = [request EXCEPT ![r].at = "revoke", ![r].got = LastToken]
          /\ UNCHANGED phone
       \/ /\ ~Validate(request[r].n) \/ \E q \in Requests : request[q].at = "swap"
          /\ Refuse(r) /\ UNCHANGED token
    /\ UNCHANGED <<secret, secretFile, revokedNonces, stale, secrets, era, collided,
                   registry, decisions, barred, replaced, giveUps, fixed, pairingCode>>

RevokeOld(r) ==
    /\ request[r].at = "revoke"
    /\ revokedNonces' = revokedNonces \cup {request[r].n}
    /\ granted' = granted \ {request[r].n}
    /\ barred' = IF request[r].op = "refresh" /\ ~request[r].live THEN barred \cup {request[r].p} ELSE barred
    /\ Goto(r, IF request[r].op = "exchange" /\ approval THEN "clear" ELSE "register")
    /\ UNCHANGED <<token, secret, secretFile, stale, secrets, era, collided, registry,
                   pendingByID, pendingByNonce, approvedNonces, rejectedNonces, asks,
                   replaced, giveUps, fixed, pairingCode>>

ClearTokenDecision(r) ==
    /\ request[r].at = "clear"
    /\ LET n == request[r].n IN
          /\ pendingByID' = [id \in DOMAIN pendingByID |-> IF id = pendingByNonce[n] THEN 0 ELSE pendingByID[id]]
          /\ pendingByNonce' = [pendingByNonce EXCEPT ![n] = 0]
          /\ approvedNonces' = approvedNonces \ {n} /\ rejectedNonces' = rejectedNonces \ {n}
    /\ Goto(r, "register")
    /\ UNCHANGED <<asks, granted, tokens, registry, barred, replaced, giveUps, fixed, pairingCode>>

\* The registry's file is written over; a write that fails keeps the old one or
\* leaves one that cannot be read, and the call goes on.
SaveLocked(devices) ==
    /\ registered' = devices
    /\ \/ registryFile' = devices /\ UNCHANGED fails
       \/ /\ Trouble /\ fails' = fails + 1
          /\ registryFile' \in {registryFile, Torn}

\* Mutant of RegisterDevice: the registry is not saved.
RegisterUnsaved(r) ==
    /\ request[r].at = "register"
    /\ registered' = IF registered = Torn THEN Torn
                     ELSE [registered EXCEPT ![token[request[r].got].d] = request[r].got]
    /\ UNCHANGED <<registryFile, fails>>
    /\ UNCHANGED replaced
    /\ Goto(r, "answer")
    /\ UNCHANGED <<tokens, decisions, barred, giveUps, fixed, pairingCode>>

RegisterDevice(r) ==
    /\ request[r].at = "register"
    /\ IF registered = Torn THEN UNCHANGED registry
       ELSE SaveLocked([registered EXCEPT ![token[request[r].got].d] = request[r].got])
    /\ replaced' = IF request[r].op = "refresh" /\ ~request[r].live THEN replaced \cup {request[r].p} ELSE replaced
    /\ Goto(r, "answer")
    /\ UNCHANGED <<tokens, decisions, barred, giveUps, fixed, pairingCode>>

\* A phone that gets an answer holds a pair nobody has touched since.
AnswerPair(r) ==
    /\ request[r].at = "answer" /\ request[r].op # "revoke"
    /\ Answer(r, [phone[request[r].p] EXCEPT !.pair = request[r].got, !.code = 0])
    /\ IF request[r].live /\ request[r].op = "exchange"
       THEN barred' = barred \ {request[r].p} /\ replaced' = replaced \ {request[r].p}
       ELSE UNCHANGED <<barred, replaced>>
    /\ UNCHANGED <<tokens, registry, decisions, giveUps, fixed, pairingCode>>

\* --- HandleRevoke: the phone signs off -----------------------------------------------------

RevokeToken(r) ==
    /\ request[r].at = "validate" /\ request[r].op = "revoke"
    /\ IF Validate(request[r].n)
       THEN /\ revokedNonces' = revokedNonces \cup {request[r].n}
            /\ replaced' = replaced \cup {request[r].p}
            /\ Goto(r, "remove")
       ELSE Refuse(r) /\ UNCHANGED <<revokedNonces, replaced>>
    /\ UNCHANGED <<token, secret, secretFile, stale, secrets, era, collided, registry, decisions,
                   barred, giveUps, fixed, pairingCode>>

RemoveDevice(r) ==
    /\ request[r].at = "remove"
    /\ IF registered = Torn THEN UNCHANGED registry
       ELSE SaveLocked([registered EXCEPT ![token[request[r].n].d] = 0])
    /\ Answer(r, [phone[request[r].p] EXCEPT !.pair = 0])
    /\ UNCHANGED <<tokens, decisions, barred, replaced, giveUps, fixed, pairingCode>>

\* --- HandlePairRefresh: a new secret revokes every token ---------------------------------------

HandlePairRefresh(r) ==
    /\ request[r].at = "idle" /\ Trouble /\ secrets' = secrets + 1
    /\ \/ /\ secretFile' = secrets + 1
          /\ request' = [request EXCEPT ![r] = [op |-> "revokeAll", at |-> "swap", p |-> Nobody, n |-> 0,
                                               got |-> secrets + 1, live |-> FALSE]]
          /\ collided' = (collided \/ \E q \in Requests : request[q].at = "swap")
          /\ UNCHANGED fails
       \/ /\ Trouble /\ fails' = fails + 1
          /\ secretFile' \in {secretFile, 0}
          /\ collided' = TRUE
          /\ UNCHANGED request
    /\ UNCHANGED <<token, secret, revokedNonces, stale, era, registered, registryFile, decisions,
                   phones, fixed, pairingCode>>

RevokeAllTokens(r) ==
    /\ request[r].at = "swap"
    /\ secret' = request[r].got /\ revokedNonces' = {} /\ era' = era + 1
    /\ granted' = {}
    /\ request' = [request EXCEPT ![r] = Free]
    /\ UNCHANGED <<token, secretFile, stale, secrets, collided, registry, pendingByID, pendingByNonce,
                   approvedNonces, rejectedNonces, asks, phones, fixed, pairingCode>>

\* --- Time and restarts ----------------------------------------------------------------------------

\* Tokens somebody holds or the server works on: the end of another one is not seen.
Used == (UNION {{phone[p].code, phone[p].pair} : p \in Phones} \cup {request[r].n : r \in Requests}) \ {0}
\* The approvals of an expired token go with it.
Expire(n) ==
    /\ Trouble /\ n \in Used \ stale /\ stale' = stale \cup {n}
    /\ pendingByID' = [id \in DOMAIN pendingByID |-> IF pendingByID[id] = n THEN 0 ELSE pendingByID[id]]
    /\ pendingByNonce' = [pendingByNonce EXCEPT ![n] = 0]
    /\ approvedNonces' = approvedNonces \ {n} /\ rejectedNonces' = rejectedNonces \ {n}
    /\ granted' = granted \ {n}
    /\ UNCHANGED <<asks, token, secret, secretFile, revokedNonces, secrets, era, collided,
                   registry, phones, fixed, pairingCode, request>>

PruneExpired ==
    /\ registered # Torn /\ \E d \in Nonces : registered[d] \in stale
    /\ SaveLocked([d \in Nonces |-> IF registered[d] \in stale THEN 0 ELSE registered[d]])
    /\ UNCHANGED <<tokens, decisions, phones, fixed, pairingCode, request>>

\* The secret and the registry are read back; a secret that cannot be read is
\* replaced, a registry that cannot be read is done without.
Restart ==
    /\ Trouble /\ restarts' = restarts + 1
    /\ secret' = IF secretFile = 0 THEN secrets + 1 ELSE secretFile
    /\ secretFile' = secret'
    /\ secrets' = IF secretFile = 0 THEN secrets + 1 ELSE secrets
    /\ era' = IF \E r \in Requests : request[r].at = "swap" THEN era + 1 ELSE era
    /\ revokedNonces' = {} /\ pairingCode' = FALSE
    /\ registered' = registryFile
    /\ pendingByID' = [id \in DOMAIN pendingByID |-> 0] /\ pendingByNonce' = NoDevice
    /\ approvedNonces' = {} /\ rejectedNonces' = {} /\ granted' = {}
    /\ request' = [r \in Requests |-> Free]
    /\ phone' = [p \in Phones |-> [phone[p] EXCEPT !.waits = FALSE]]
    /\ barred' = {}
    /\ replaced' = replaced
         \cup {p \in Phones : \E r \in Requests : request[r].op = "refresh" /\ request[r].at = "answer" /\ request[r].p = p}
         \cup {p \in Phones : /\ phone[p].pair # 0 /\ fails > 0 /\ registered # Torn /\ registryFile # Torn
                              /\ registryFile[token[phone[p].pair].d] # registered[token[phone[p].pair].d]}
    /\ UNCHANGED <<token, stale, collided, registryFile, fails, asks, giveUps, approval>>

\* --- The system ---------------------------------------------------------------------------------------

AccessInit ==
    /\ token = <<>> /\ secret = 1 /\ secretFile = 1 /\ secrets = 1 /\ revokedNonces = {} /\ stale = {}
    /\ registered = NoDevice /\ registryFile = NoDevice /\ fails = 0
    /\ approval \in BOOLEAN
    /\ pendingByID = [id \in 1..MaxAsks |-> 0] /\ pendingByNonce = NoDevice
    /\ approvedNonces = {} /\ rejectedNonces = {} /\ asks = 0
    /\ pairingCode = FALSE
    /\ phone = [p \in Phones |-> [code |-> 0, pair |-> 0, waits |-> FALSE]]
    /\ request = [r \in Requests |-> Free]
    /\ restarts = 0 /\ giveUps = 0
    /\ era = 0 /\ collided = FALSE /\ barred = {} /\ replaced = {} /\ granted = {}

AccessNext ==
    \/ \E p \in Phones :
          \/ HandlePairInfo(p) \/ HandlePairQR(p) \/ HandlePairCode(p) \/ GiveUp(p)
          \/ \E r \in Requests : HandleExchange(p, r) \/ HandleRefresh(p, r) \/ HandleRevoke(p, r)
    \/ HandlePairPage \/ CodeExpires
    \/ \E r \in Requests :
          \/ ValidateToken(r) \/ CheckApproval(r) \/ EnsurePending(r)
          \/ GenerateTokenPair(r) \/ RevokeOld(r) \/ ClearTokenDecision(r) \/ RegisterDevice(r) \/ AnswerPair(r)
          \/ RevokeToken(r) \/ RemoveDevice(r)
          \/ HandlePairRefresh(r) \/ RevokeAllTokens(r)
    \/ \E id \in 1..MaxAsks : HandlePairingApprove(id) \/ HandlePairingReject(id)
    \/ \E n \in 1..Len(token) : Expire(n)
    \/ PruneExpired \/ Restart

AccessSpec == AccessInit /\ [][AccessNext]_accessVars

\* --- Properties --------------------------------------------------------------------------------------------

\* The pair a phone was last answered with is accepted, and so renews itself,
\* through the calls of the other phones and through restarts at any step: also
\* when the restart cut a refresh of this very pair before it was registered.
\* Excepted are a pair that expired, signed off, or was revoked with all the
\* others, and a phone that gave up on a refresh the server went on to finish
\* or whose registration never reached the file.
HeldPairWorks ==
    \A p \in Phones :
        LET n == phone[p].pair IN
        (/\ n # 0 /\ ~phone[p].waits /\ n \notin stale
         /\ p \notin barred \cup replaced /\ token[n].era = era /\ ~collided)
        => Validate(n) /\ IsRefreshNonceValid(n)

\* Once the user has approved a phone's request, no exchange that looks at the
\* decision is sent back to wait or turned away, even when a poll that had
\* looked before listed the request again and the user rejected that one.
ApprovedIsServed ==
    [][\A r \in Requests :
          (request[r].at = "status" /\ request'[r].at # "status" /\ restarts' = restarts)
          => (request[r].n \in granted => request'[r].at = "generate")]_accessVars

=============================================================================
