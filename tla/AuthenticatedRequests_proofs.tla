-------------------- MODULE AuthenticatedRequests_proofs --------------------
(***************************************************************************)
(* Proofs about SigningKeys and TenantAccess, composed as in                *)
(* AuthenticatedRequests, for every set of requests, keys, users, tenants,  *)
(* roles, tokens, connections and memberships.                              *)
(***************************************************************************)
EXTENDS AuthenticatedRequests, FiniteSetTheorems, TLAPS

-----------------------------------------------------------------------------
(* The invariant of the keys.                                              *)

Verification ==
    [pc : {"idle", "token", "look", "fill", "refresh", "filled", "refreshed", "failed", "key", "rejected"},
     kid : Kids \cup {None}, client : Nat, again : BOOLEAN,
     answer : (SUBSET Kids) \cup {NoKeys}, warm : BOOLEAN, late : BOOLEAN]

\* Nothing of client i can verify key k: not what it remembers, not the set it fetched
\* last, not an answer on its way to it.
Clean(i, k) ==
    /\ k \notin clients[i].known
    /\ clients[i].jwks # NoKeys => k \notin clients[i].jwks
    /\ \A r \in Requests :
        verify[r].client = i /\ verify[r].answer # NoKeys => k \notin verify[r].answer

\* An answer is held between its arrival and its use.
AnswersAreUsed ==
    \A r \in Requests : verify[r].answer # NoKeys => verify[r].pc \in {"filled", "refreshed"}

\* Every verification is of a key the token names.
KeysAreNamed == \A r \in Requests : verify[r].pc # "idle" => verify[r].kid # None

\* As long as a refetch is refused, the current client is younger than the TTL.
CurrentIsYoung == ~mayRefetch => clients # <<>> /\ ~clients[Len(clients)].old

\* A client younger than the TTL has nothing of a retired key.
YoungAreClean ==
    /\ retired \cap published = {}
    /\ \A i \in 1..Len(clients), k \in retired : ~clients[i].old => Clean(i, k)

\* A request that came too late meets only such clients, whatever their age by now.
LateMeetClean ==
    \A r \in Requests : verify[r].late =>
        /\ verify[r].kid \in retired
        /\ verify[r].client # 0 => Clean(verify[r].client, verify[r].kid)

KeysInv ==
    /\ KeysTypeOK /\ verify \in [Requests -> Verification]
    /\ AnswersAreUsed /\ KeysAreNamed /\ CurrentIsYoung /\ YoungAreClean /\ LateMeetClean
    /\ RetiredKeysExpire

-----------------------------------------------------------------------------
(* The invariant of the sessions.                                          *)

Capabilities == UNION {Roles[role] : role \in DOMAIN Roles}

\* Positions with a token behind them.
Working == InSession \cup {"verifying", "verified", "known", "resolved", "context", "elevated", "answered"}

\* Positions reached with a membership chosen.
Acting == {"capabilities", "resolved", "slug", "context", "rows", "leave", "elevated", "answered"}

Position ==
    [pc : Working \cup {"idle", "forbidden", "unauthenticated", "error"},
     token : Tokens \cup {None}, tenant : Tenants \cup {None},
     role : DOMAIN Roles \cup {None}, caps : SUBSET Capabilities,
     rows : SUBSET (Users \X Tenants),
     granted : SUBSET (Tenants \X (DOMAIN Roles \cup {None}))]

\* A request knows of every membership its user has, and acts with one of those.
Lawful(q) ==
    /\ q \in Position
    /\ q.pc \in Working => q.token # None
    /\ q.pc \in Acting => q.tenant # None /\ q.role \in DOMAIN Roles
    /\ q.token # None => Grants(q.token.user) \subseteq q.granted
    /\ q.tenant # None => q.token # None /\ <<q.tenant, q.role>> \in q.granted

RequestsAreLawful == \A r \in Requests : Lawful(request[r])

\* What the session of a request is opened for.
Scope(q) ==
    IF q.pc \in {"principal", "slug"} THEN NoSettings
    ELSE IF q.pc \in {"memberships", "capabilities"} THEN [tenant |-> None, user |-> q.token.user]
    ELSE [tenant |-> q.tenant, user |-> None]

\* Nothing stays with a connection, and a connection that is out belongs to one
\* session, with the settings of that session.
ConnectionsAreScoped ==
    /\ \A c \in Connections : conn[c].kept = NoSettings
    /\ \A c \in Connections : conn[c].holder = None => conn[c].local = NoSettings
    /\ \A c \in Connections : conn[c].holder # None =>
            /\ request[conn[c].holder].pc \in InSession
            /\ conn[c].local = Scope(request[conn[c].holder])
    /\ \A c, d \in Connections : conn[c].holder = conn[d].holder /\ conn[c].holder # None => c = d
    /\ \A r \in Requests : request[r].pc \in InSession => \E c \in Connections : conn[c].holder = r

AccessInv ==
    /\ member \in [Users \X Tenants -> Membership] /\ live \subseteq Tenants
    /\ conn \in [Connections -> Connection]
    /\ request \in [Requests -> Position]
    /\ RequestsAreLawful /\ ConnectionsAreScoped

\* The two meet where a request waits for its token to be verified.
Verifying == \A r \in Requests : verify[r].pc # "idle" <=> request[r].pc = "verifying"

IInv == KeysInv /\ AccessInv /\ Verifying

-----------------------------------------------------------------------------
(* What a step does to the keys.                                           *)

\* One client has changed.
LEMMA ClientChanged ==
    ASSUME clients \in Seq(Client), NEW i \in 1..Len(clients), NEW entry \in Client,
           clients' = [clients EXCEPT ![i] = entry]
    PROVE  /\ clients' \in Seq(Client) /\ Len(clients') = Len(clients)
           /\ \A j \in 1..Len(clients) : clients'[j] = IF j = i THEN entry ELSE clients[j]
OBVIOUS

\* The current client is replaced; the request goes on with the new one.
LEMMA ReplaceStep ==
    ASSUME KeysInv, NEW r \in Requests, NEW step, NEW replace \in BOOLEAN,
           verify[r].pc \in {"token", "failed"}, replace,
           Provide(r, replace, step), UNCHANGED <<published, up, retired, changes>>
    PROVE  KeysInv' /\ verify'[r].pc # "idle" /\ \A q \in Requests : q # r => verify'[q] = verify[q]
<1>1. /\ clients' = Append(clients, Empty) /\ mayRefetch' = FALSE
      /\ verify' = [verify EXCEPT ![r].client = Len(clients'), ![r].pc = "look", ![r].again = (step = "again")]
      /\ UNCHANGED <<published, up, retired, changes>>
    BY DEF Provide
<1>2. /\ Empty \in Client /\ Empty.known = {} /\ Empty.jwks = NoKeys /\ Empty.old = FALSE
    BY DEF Empty, Client, NoKeys
<1>3. /\ clients' \in Seq(Client) /\ Len(clients') = Len(clients) + 1 /\ Len(clients) \in Nat
      /\ \A i \in 1..Len(clients) : clients'[i] = clients[i]
      /\ clients'[Len(clients) + 1] = Empty
    BY <1>1, <1>2 DEF KeysInv, KeysTypeOK
<1>4. /\ verify' \in [Requests -> Verification]
      /\ verify'[r].client = Len(clients) + 1 /\ verify'[r].pc = "look"
      /\ verify'[r].kid = verify[r].kid /\ verify'[r].late = verify[r].late
      /\ verify'[r].answer = verify[r].answer /\ verify[r].answer = NoKeys
      /\ \A q \in Requests : q # r => verify'[q] = verify[q]
    BY <1>1, <1>3 DEF KeysInv, AnswersAreUsed, Verification
<1>5. \A q \in Requests : verify[q].client \in 0..Len(clients) /\ verify[q].client # Len(clients) + 1
    BY <1>3 DEF KeysInv, KeysTypeOK
<1>6. verify[r].kid # None
    BY DEF KeysInv, KeysAreNamed
<1>7. KeysTypeOK'
    <2>1. verify'[r].client \in 0..Len(clients') /\ verify'[r].client # 0
        BY <1>3, <1>4
    <2>2. \A q \in Requests : verify[q].client \in 0..Len(clients')
        BY <1>3, <1>5
    <2>3. QED BY <1>1, <1>3, <1>4, <1>6, <2>1, <2>2 DEF KeysInv, KeysTypeOK
<1>8. AnswersAreUsed' /\ KeysAreNamed' /\ CurrentIsYoung' /\ RetiredKeysExpire'
    BY <1>1, <1>2, <1>3, <1>4, <1>6
    DEF KeysInv, AnswersAreUsed, KeysAreNamed, CurrentIsYoung, RetiredKeysExpire
<1>9. ASSUME NEW i \in 1..Len(clients), NEW k, Clean(i, k)
      PROVE  Clean(i, k)'
    BY <1>3, <1>4, <1>9 DEF Clean
<1>10. ASSUME NEW i, i = Len(clients) + 1, NEW k
       PROVE  Clean(i, k)'
    <2>1. clients'[i].known = {} /\ clients'[i].jwks = NoKeys
        BY <1>2, <1>3, <1>10
    <2>2. \A q \in Requests : verify'[q].client = i => q = r
        BY <1>4, <1>5, <1>10
    <2>3. QED BY <1>2, <1>3, <1>4, <1>10, <2>1, <2>2 DEF Clean, NoKeys
<1>11. YoungAreClean'
    <2>1. \A i \in 1..Len(clients') : i \in 1..Len(clients) \/ i = Len(clients) + 1
        BY <1>3
    <2>2. ASSUME NEW i \in 1..Len(clients'), NEW k \in retired, ~clients'[i].old
          PROVE  Clean(i, k)'
        BY <1>3, <1>9, <1>10, <2>1, <2>2 DEF KeysInv, YoungAreClean
    <2>3. QED BY <1>1, <2>2 DEF KeysInv, YoungAreClean
<1>12. LateMeetClean'
    <2>1. ASSUME NEW q \in Requests, q # r, verify[q].late, verify[q].client # 0
          PROVE  Clean(verify[q].client, verify[q].kid)'
        <3>1. Clean(verify[q].client, verify[q].kid) /\ verify[q].client \in 1..Len(clients)
            BY <1>3, <1>5, <2>1 DEF KeysInv, LateMeetClean
        <3>2. PICK i, k : i = verify[q].client /\ k = verify[q].kid
            OBVIOUS
        <3>3. Clean(i, k)'
            BY <1>9, <3>1, <3>2
        <3>4. QED BY <1>4, <2>1, <3>2, <3>3
    <2>2. QED BY <1>1, <1>4, <1>10, <2>1 DEF KeysInv, LateMeetClean
<1>13. QED
    BY <1>4, <1>7, <1>8, <1>11, <1>12 DEF KeysInv

\* The request goes on with the current client, which is young.
LEMMA CurrentStep ==
    ASSUME KeysInv, NEW r \in Requests, NEW step, NEW replace \in BOOLEAN,
           verify[r].pc \in {"token", "failed"}, ~replace,
           clients # <<>>, ~clients[Len(clients)].old,
           Provide(r, replace, step), UNCHANGED <<published, up, retired, changes>>
    PROVE  KeysInv' /\ verify'[r].pc # "idle" /\ \A q \in Requests : q # r => verify'[q] = verify[q]
<1>1. /\ UNCHANGED <<clients, mayRefetch>>
      /\ verify' = [verify EXCEPT ![r].client = Len(clients'), ![r].pc = "look", ![r].again = (step = "again")]
      /\ UNCHANGED <<published, up, retired, changes>>
    BY DEF Provide, cache
<1>2. Len(clients) \in Nat \ {0}
    BY DEF KeysInv, KeysTypeOK
<1>3. /\ verify' \in [Requests -> Verification]
      /\ verify'[r].client = Len(clients) /\ verify'[r].pc = "look"
      /\ verify'[r].kid = verify[r].kid /\ verify'[r].late = verify[r].late
      /\ verify'[r].answer = verify[r].answer /\ verify[r].answer = NoKeys
      /\ \A q \in Requests : q # r => verify'[q] = verify[q]
    BY <1>1, <1>2 DEF KeysInv, AnswersAreUsed, Verification
<1>4. verify[r].kid # None
    BY DEF KeysInv, KeysAreNamed
<1>5. KeysTypeOK'
    BY <1>1, <1>2, <1>3, <1>4 DEF KeysInv, KeysTypeOK
<1>6. AnswersAreUsed' /\ KeysAreNamed' /\ CurrentIsYoung' /\ RetiredKeysExpire'
    BY <1>1, <1>3, <1>4 DEF KeysInv, AnswersAreUsed, KeysAreNamed, CurrentIsYoung, RetiredKeysExpire
<1>7. \A i, k : Clean(i, k) => Clean(i, k)'
    BY <1>1, <1>3 DEF Clean
<1>8. YoungAreClean'
    BY <1>1, <1>7 DEF KeysInv, YoungAreClean
<1>9. \A k \in retired : Clean(Len(clients), k)
    BY <1>2 DEF KeysInv, YoungAreClean
<1>10. LateMeetClean'
    BY <1>1, <1>3, <1>7, <1>9 DEF KeysInv, LateMeetClean
<1>11. QED
    BY <1>3, <1>5, <1>6, <1>8, <1>10 DEF KeysInv

\* What Look and Put have in common: the set of the request's client is the one it has
\* or the answer, and what is found in it, or was known, is remembered.
Consult(r, pc, found, jwks) ==
    /\ verify[r].pc \in {"look", "filled", "refreshed"}
    /\ pc \in {"key", "fill", "refresh", "failed"}
    /\ verify' = [verify EXCEPT ![r].pc = pc, ![r].answer = NoKeys]
    /\ clients' = [clients EXCEPT
          ![verify[r].client].jwks = jwks,
          ![verify[r].client].known = IF found THEN @ \cup {verify[r].kid} ELSE @]
    /\ pc = "key" <=> found
    /\ jwks = clients[verify[r].client].jwks \/ jwks = verify[r].answer
    /\ found => \/ verify[r].kid \in clients[verify[r].client].known
                \/ jwks # NoKeys /\ verify[r].kid \in jwks
    /\ UNCHANGED <<published, up, mayRefetch, retired, changes>>

\* A client of the request remembers what it found.
LEMMA FindStep ==
    ASSUME KeysInv, NEW r \in Requests, NEW found \in BOOLEAN, NEW jwks, NEW pc,
           Consult(r, pc, found, jwks)
    PROVE  KeysInv' /\ verify'[r].pc # "idle" /\ \A q \in Requests : q # r => verify'[q] = verify[q]
<1> DEFINE me == verify[r].client
<1> USE DEF Consult
<1>1. /\ me \in 1..Len(clients) /\ verify[r].kid \in Kids /\ Len(clients) \in Nat
      /\ verify[r].answer \in (SUBSET Kids) \cup {NoKeys}
    BY DEF KeysInv, KeysTypeOK, Verification
<1>2. /\ clients[me] \in Client /\ jwks \in (SUBSET Kids) \cup {NoKeys}
    <2>1. clients[me] \in Client
        BY <1>1 DEF KeysInv, KeysTypeOK
    <2>2. clients[me].jwks \in (SUBSET Kids) \cup {NoKeys}
        BY <2>1 DEF Client
    <2>3. QED BY <1>1, <2>1, <2>2
<1>3. /\ clients' \in Seq(Client) /\ Len(clients') = Len(clients)
      /\ \A i \in 1..Len(clients) : i # me => clients'[i] = clients[i]
      /\ clients'[me].jwks = jwks /\ clients'[me].old = clients[me].old
      /\ clients'[me].known = IF found THEN clients[me].known \cup {verify[r].kid} ELSE clients[me].known
      /\ \A i \in 1..Len(clients) : clients'[i].old = clients[i].old
    <2>1. [clients[me] EXCEPT !.jwks = jwks, !.known = IF found THEN @ \cup {verify[r].kid} ELSE @] \in Client
        BY <1>1, <1>2 DEF Client
    <2>2. PICK entry \in Client :
             entry = [clients[me] EXCEPT !.jwks = jwks, !.known = IF found THEN @ \cup {verify[r].kid} ELSE @]
        BY <2>1
    <2>3. clients' = [clients EXCEPT ![me] = entry]
        BY <2>2
    <2>4. clients \in Seq(Client)
        BY DEF KeysInv, KeysTypeOK
    <2>5. /\ clients' \in Seq(Client) /\ Len(clients') = Len(clients)
          /\ \A i \in 1..Len(clients) : clients'[i] = IF i = me THEN entry ELSE clients[i]
        BY <1>1, <2>3, <2>4, ClientChanged
    <2>6. entry.jwks = jwks /\ entry.old = clients[me].old
          /\ entry.known = IF found THEN clients[me].known \cup {verify[r].kid} ELSE clients[me].known
        BY <1>2, <2>2 DEF Client
    <2>7. QED BY <1>1, <2>5, <2>6
<1>4. /\ verify' \in [Requests -> Verification]
      /\ verify'[r].client = me /\ verify'[r].kid = verify[r].kid
      /\ verify'[r].late = verify[r].late /\ verify'[r].answer = NoKeys /\ verify'[r].pc = pc
      /\ \A q \in Requests : q # r => verify'[q] = verify[q]
    BY ZenonT(40) DEF KeysInv, Verification
<1>5. KeysTypeOK'
    BY <1>1, <1>3, <1>4, ZenonT(40) DEF KeysInv, KeysTypeOK
<1>6. AnswersAreUsed' /\ KeysAreNamed' /\ CurrentIsYoung'
    <2>1. AnswersAreUsed' /\ KeysAreNamed'
        BY <1>1, <1>4 DEF KeysInv, AnswersAreUsed, KeysAreNamed
    <2>2. Len(clients) \in 1..Len(clients) /\ clients # <<>> /\ clients' # <<>>
        BY <1>1, <1>3, SMTT(30) DEF KeysInv, KeysTypeOK
    <2>3. CurrentIsYoung'
        BY <1>3, <2>2 DEF KeysInv, CurrentIsYoung
    <2>4. QED BY <2>1, <2>3
<1>7. found => \A k : Clean(me, k) => k # verify[r].kid
    BY DEF Clean
<1>8. ASSUME NEW i \in 1..Len(clients), NEW k, Clean(i, k)
      PROVE  Clean(i, k)'
    <2>1. k \notin clients'[i].known
        <3>1. CASE i = me
            <4>1. found => k # verify[r].kid
                BY <1>7, <1>8, <3>1
            <4>2. k \notin clients[i].known
                BY <1>8 DEF Clean
            <4>3. clients'[me].known \subseteq clients[me].known \cup {verify[r].kid}
                BY <1>3
            <4>4. CASE ~found
                <5>1. clients'[me].known = clients[me].known
                    BY <1>3, <4>4
                <5>2. QED BY <3>1, <4>2, <5>1
            <4>5. CASE found
                BY <3>1, <4>1, <4>2, <4>3, <4>5
            <4>6. QED BY <4>4, <4>5
        <3>2. CASE i # me
            BY <1>3, <1>8, <3>2 DEF Clean
        <3>3. QED BY <3>1, <3>2
    <2>2. clients'[i].jwks # NoKeys => k \notin clients'[i].jwks
        <3>1. CASE i = me
            BY <1>3, <1>8, <3>1 DEF Clean
        <3>2. CASE i # me
            BY <1>3, <1>8, <3>2 DEF Clean
        <3>3. QED BY <3>1, <3>2
    <2>3. ASSUME NEW q \in Requests, verify'[q].client = i, verify'[q].answer # NoKeys
          PROVE  k \notin verify'[q].answer
        <3>1. q # r
            BY <1>4, <2>3
        <3>2. QED BY <1>4, <1>8, <2>3, <3>1 DEF Clean
    <2>4. QED BY <2>1, <2>2, <2>3 DEF Clean
<1>9. YoungAreClean'
    BY <1>3, <1>8 DEF KeysInv, YoungAreClean
<1>10. LateMeetClean'
    <2>1. ASSUME NEW q \in Requests, verify[q].late, verify[q].client # 0
          PROVE  Clean(verify[q].client, verify[q].kid)'
        <3>1. Clean(verify[q].client, verify[q].kid) /\ verify[q].client \in 1..Len(clients)
            BY <1>1, <2>1 DEF KeysInv, LateMeetClean, KeysTypeOK
        <3>2. PICK i, k : i = verify[q].client /\ k = verify[q].kid
            OBVIOUS
        <3>3. Clean(i, k)'
            BY <1>8, <3>1, <3>2
        <3>4. verify'[q].client = i /\ verify'[q].kid = k
            BY <1>4, <3>2
        <3>5. QED BY <3>3, <3>4, <3>2
    <2>2. QED BY <1>4, <2>1 DEF KeysInv, LateMeetClean
<1>11. RetiredKeysExpire'
    BY <1>1, <1>4, <1>7 DEF KeysInv, RetiredKeysExpire, LateMeetClean
<1>12. QED
    BY <1>4, <1>5, <1>6, <1>9, <1>10, <1>11 DEF KeysInv

\* The provider answers what it publishes.
LEMMA AskStep ==
    ASSUME KeysInv, NEW r \in Requests, Ask(r)
    PROVE  KeysInv' /\ verify'[r].pc # "idle" /\ \A q \in Requests : q # r => verify'[q] = verify[q]
<1>1. /\ verify' \in [Requests -> Verification]
      /\ verify'[r].client = verify[r].client /\ verify'[r].kid = verify[r].kid
      /\ verify'[r].late = verify[r].late /\ verify'[r].pc \in {"filled", "refreshed"}
      /\ verify'[r].answer = IF up THEN published ELSE NoKeys
      /\ verify[r].client # 0 /\ verify[r].kid # None
      /\ \A q \in Requests : q # r => verify'[q] = verify[q]
      /\ UNCHANGED <<published, up, clients, mayRefetch, retired, changes>>
    <2>1. published \subseteq Kids /\ verify[r].client # 0 /\ verify[r].kid # None
        BY DEF Ask, KeysInv, KeysTypeOK
    <2>2. PICK answer \in (SUBSET Kids) \cup {NoKeys} : answer = IF up THEN published ELSE NoKeys
        BY <2>1
    <2>3. PICK pc \in {"filled", "refreshed"} : pc = IF verify[r].pc = "fill" THEN "filled" ELSE "refreshed"
        OBVIOUS
    <2>4. verify' = [verify EXCEPT ![r].pc = pc, ![r].answer = answer]
        BY <2>2, <2>3 DEF Ask
    <2>5. /\ verify' \in [Requests -> Verification]
          /\ verify'[r].client = verify[r].client /\ verify'[r].kid = verify[r].kid
          /\ verify'[r].late = verify[r].late /\ verify'[r].pc = pc /\ verify'[r].answer = answer
          /\ \A q \in Requests : q # r => verify'[q] = verify[q]
        <3>1. verify[r] \in Verification /\ verify \in [Requests -> Verification]
            BY DEF KeysInv
        <3>2. PICK v : v = [verify[r] EXCEPT !.pc = pc, !.answer = answer]
            OBVIOUS
        <3>3. /\ v \in Verification /\ v.client = verify[r].client /\ v.kid = verify[r].kid
              /\ v.late = verify[r].late /\ v.pc = pc /\ v.answer = answer
            BY <2>2, <2>3, <3>1, <3>2 DEF Verification
        <3>4. verify' = [verify EXCEPT ![r] = v]
            BY <2>4, <3>2
        <3>5. QED BY <3>1, <3>3, <3>4
    <2>6. UNCHANGED <<published, up, clients, mayRefetch, retired, changes>>
        BY DEF Ask, provider, cache
    <2>7. QED BY <2>1, <2>2, <2>3, <2>5, <2>6
<1>2. KeysTypeOK'
    BY <1>1 DEF KeysInv, KeysTypeOK
<1>3. AnswersAreUsed' /\ KeysAreNamed' /\ CurrentIsYoung' /\ RetiredKeysExpire'
    BY <1>1 DEF KeysInv, AnswersAreUsed, KeysAreNamed, CurrentIsYoung, RetiredKeysExpire
<1>4. ASSUME NEW i, NEW k, Clean(i, k), k \in retired
      PROVE  Clean(i, k)'
    BY <1>1, <1>4 DEF Clean, KeysInv, YoungAreClean
<1>5. YoungAreClean'
    BY <1>1, <1>4 DEF KeysInv, YoungAreClean
<1>6. LateMeetClean'
    BY <1>1, <1>4 DEF KeysInv, LateMeetClean
<1>7. QED
    BY <1>1, <1>2, <1>3, <1>5, <1>6 DEF KeysInv

\* A request begins, ends or is refused, and no client takes part.
LEMMA QuietStep ==
    ASSUME KeysInv, NEW r \in Requests,
           \/ Reject(r) \/ Forget(r) \/ \E k \in Kids : Present(r, k)
    PROVE  KeysInv' /\ \A q \in Requests : q # r => verify'[q] = verify[q]
<1>1. /\ verify' \in [Requests -> Verification]
      /\ verify'[r].answer = NoKeys /\ verify'[r].pc \in {"idle", "token", "rejected"}
      /\ \A q \in Requests : q # r => verify'[q] = verify[q]
      /\ \/ verify'[r].client = 0
         \/ verify'[r].client = verify[r].client
      /\ verify'[r].late => \/ verify'[r].kid \in retired /\ verify'[r].client = 0
                            \/ /\ verify[r].late /\ verify'[r].kid = verify[r].kid
                               /\ verify'[r].client = verify[r].client
      /\ verify'[r].pc # "idle" => verify'[r].kid # None
      /\ UNCHANGED <<published, up, clients, mayRefetch, retired, changes>>
    <2>1. CASE Reject(r)
        BY <2>1 DEF Reject, KeysInv, AnswersAreUsed, KeysAreNamed, LateMeetClean, Verification, provider, cache
    <2>2. Idle \in Verification /\ Idle.answer = NoKeys /\ Idle.client = 0 /\ ~Idle.late /\ Idle.pc = "idle"
        BY DEF Idle, Verification, NoKeys
    <2>3. CASE Forget(r)
        BY <2>2, <2>3 DEF Forget, KeysInv, provider, cache
    <2>4. ASSUME NEW k \in Kids, Present(r, k)
          PROVE  /\ verify' = [verify EXCEPT ![r] = verify'[r]] /\ verify'[r] \in Verification
                 /\ verify'[r].answer = NoKeys /\ verify'[r].pc = "token" /\ verify'[r].client = 0
                 /\ verify'[r].kid = k /\ k # None /\ verify'[r].late = (k \in retired)
                 /\ UNCHANGED <<published, up, clients, mayRefetch, retired, changes>>
        <3>1. PICK warm \in BOOLEAN, late \in BOOLEAN : warm = Warm(k) /\ late = (k \in retired)
            <4>1. Warm(k) \in BOOLEAN
                BY DEF Warm
            <4>2. (k \in retired) \in BOOLEAN
                OBVIOUS
            <4>3. QED BY <4>1, <4>2
        <3>2. verify' = [verify EXCEPT ![r] = [Idle EXCEPT !.pc = "token", !.kid = k, !.warm = warm, !.late = late]]
            BY <2>4, <3>1 DEF Present
        <3>3. k # None
            BY KeysAssumption
        <3>4. /\ verify'[r] = [Idle EXCEPT !.pc = "token", !.kid = k, !.warm = warm, !.late = late]
              /\ verify' = [verify EXCEPT ![r] = verify'[r]]
            BY <3>2 DEF KeysInv
        <3>5. /\ verify'[r] \in Verification /\ verify'[r].answer = NoKeys /\ verify'[r].pc = "token"
              /\ verify'[r].client = 0 /\ verify'[r].kid = k /\ verify'[r].late = late
            BY <2>2, <3>4 DEF Verification
        <3>6. UNCHANGED <<published, up, clients, mayRefetch, retired, changes>>
            BY <2>4 DEF Present, provider, cache
        <3>7. QED BY <3>1, <3>3, <3>4, <3>5, <3>6
    <2>5. CASE \E k \in Kids : Present(r, k)
        BY <2>4, <2>5 DEF KeysInv
    <2>6. QED BY <2>1, <2>3, <2>5
<1>2. KeysTypeOK'
    BY <1>1 DEF KeysInv, KeysTypeOK, Verification
<1>3. AnswersAreUsed' /\ KeysAreNamed' /\ CurrentIsYoung' /\ RetiredKeysExpire'
    BY <1>1 DEF KeysInv, AnswersAreUsed, KeysAreNamed, CurrentIsYoung, RetiredKeysExpire
<1>4. ASSUME NEW i, NEW k, Clean(i, k)
      PROVE  Clean(i, k)'
    BY <1>1, <1>4 DEF Clean
<1>5. YoungAreClean'
    BY <1>1, <1>4 DEF KeysInv, YoungAreClean
<1>6. LateMeetClean'
    BY <1>1, <1>4 DEF KeysInv, LateMeetClean
<1>7. QED
    BY <1>1, <1>2, <1>3, <1>5, <1>6 DEF KeysInv

\* A key known or in the set fetched last is found; else the provider is asked.
LEMMA LookStep ==
    ASSUME KeysInv, NEW r \in Requests, Look(r)
    PROVE  KeysInv' /\ verify'[r].pc # "idle" /\ \A q \in Requests : q # r => verify'[q] = verify[q]
<1> DEFINE me == verify[r].client
<1>1. /\ verify[r].pc = "look" /\ verify[r].answer = NoKeys
      /\ clients[me] \in Client /\ verify \in [Requests -> Verification]
    BY DEF Look, KeysInv, KeysTypeOK, AnswersAreUsed
<1>2. PICK pc \in {"key", "fill", "refresh"}, found \in BOOLEAN :
          /\ Settle(r, pc, found)
          /\ pc = "key" <=> found
          /\ found => \/ verify[r].kid \in clients[me].known
                      \/ clients[me].jwks # NoKeys /\ verify[r].kid \in clients[me].jwks
    BY DEF Look, Mine
<1>3. PICK jwks : jwks = clients[me].jwks
    OBVIOUS
<1>4. verify' = [verify EXCEPT ![r].pc = pc, ![r].answer = NoKeys]
    BY <1>2 DEF Settle
<1>5. \A known : [clients[me] EXCEPT !.known = known] = [clients[me] EXCEPT !.jwks = jwks, !.known = known]
    BY <1>1, <1>3 DEF Client
<1>6. clients' = [clients EXCEPT ![me] =
              [clients[me] EXCEPT !.known = IF found THEN @ \cup {verify[r].kid} ELSE @]]
    BY <1>2 DEF Settle
<1>7. clients' = [clients EXCEPT ![me] =
              [clients[me] EXCEPT !.jwks = jwks, !.known = IF found THEN @ \cup {verify[r].kid} ELSE @]]
    BY <1>5, <1>6
<1>8. clients' = [clients EXCEPT ![me].jwks = jwks, ![me].known = IF found THEN @ \cup {verify[r].kid} ELSE @]
    BY <1>7
<1>9. UNCHANGED <<published, up, mayRefetch, retired, changes>>
    BY DEF Look, provider
<1>10. QED
    <2>1. Consult(r, pc, found, jwks)
        BY <1>1, <1>2, <1>3, <1>4, <1>8, <1>9 DEF Consult
    <2>2. QED BY <2>1, FindStep

\* The answer is stored, and the key found or not.
LEMMA PutStep ==
    ASSUME KeysInv, NEW r \in Requests, Put(r)
    PROVE  KeysInv' /\ verify'[r].pc # "idle" /\ \A q \in Requests : q # r => verify'[q] = verify[q]
<1> DEFINE me == verify[r].client
<1>1. /\ verify[r].pc \in {"filled", "refreshed"} /\ verify \in [Requests -> Verification]
    BY DEF Put, KeysInv
<1>2. PICK jwks : jwks = verify[r].answer
    OBVIOUS
<1>3. PICK found \in BOOLEAN : found <=> (jwks # NoKeys /\ verify[r].kid \in jwks)
    OBVIOUS
<1>4. PICK pc \in {"key", "refresh", "failed"} :
          pc = IF found THEN "key" ELSE IF jwks # NoKeys /\ verify[r].pc = "filled" THEN "refresh" ELSE "failed"
    OBVIOUS
<1>5. verify' = [verify EXCEPT ![r].answer = NoKeys, ![r].pc = pc]
    BY <1>2, <1>3, <1>4 DEF Put
<1>6. /\ pc = "key" <=> found
      /\ verify' = [verify EXCEPT ![r].pc = pc, ![r].answer = NoKeys]
    BY <1>1, <1>4, <1>5 DEF Verification
<1>7. clients' = [clients EXCEPT ![me].jwks = jwks, ![me].known = IF found THEN @ \cup {verify[r].kid} ELSE @]
    BY <1>2, <1>3 DEF Put
<1>8. UNCHANGED <<published, up, mayRefetch, retired, changes>>
    BY DEF Put, provider
<1>9. QED
    <2>1. Consult(r, pc, found, jwks)
        BY <1>1, <1>2, <1>3, <1>4, <1>6, <1>7, <1>8 DEF Consult
    <2>2. QED BY <2>1, FindStep

\* What the verifier does for a request keeps the invariant, and leaves the others
\* alone.
LEMMA ResolveStep ==
    ASSUME KeysInv, NEW r \in Requests, Resolve(r)
    PROVE  /\ KeysInv' /\ verify[r].pc # "idle" /\ verify'[r].pc # "idle"
           /\ \A q \in Requests : q # r => verify'[q] = verify[q]
<1>1. CASE GetClient(r)
    <2>1. PICK replace \in BOOLEAN : replace = Stale
        <3>1. Stale \in BOOLEAN
            <4>1. clients # <<>> => clients[Len(clients)] \in Client
                BY DEF KeysInv, KeysTypeOK
            <4>2. QED BY <4>1 DEF Stale, Client
        <3>2. QED BY <3>1
    <2>2. /\ Provide(r, replace, "first") /\ verify[r].pc = "token"
          /\ UNCHANGED <<published, up, retired, changes>>
        BY <1>1, <2>1 DEF GetClient, provider
    <2>3. ~replace => clients # <<>> /\ ~clients[Len(clients)].old
        BY <2>1 DEF Stale
    <2>4. QED BY <2>2, <2>3, ReplaceStep, CurrentStep
<1>2. CASE ForceRefresh(r)
    <2>1. /\ Provide(r, mayRefetch, "again") /\ verify[r].pc = "failed"
          /\ UNCHANGED <<published, up, retired, changes>> /\ mayRefetch \in BOOLEAN
        BY <1>2 DEF ForceRefresh, KeysInv, KeysTypeOK, provider
    <2>2. ~mayRefetch => clients # <<>> /\ ~clients[Len(clients)].old
        BY DEF KeysInv, CurrentIsYoung
    <2>3. PICK replace \in BOOLEAN : replace = mayRefetch
        BY <2>1
    <2>4. QED BY <2>1, <2>2, <2>3, ReplaceStep, CurrentStep
<1>3. CASE Reject(r)
    <2>1. verify'[r].pc = "rejected" /\ verify[r].pc = "failed"
        BY <1>3 DEF Reject, KeysInv, Verification
    <2>2. QED BY <1>3, <2>1, QuietStep
<1>4. CASE Look(r) \/ Ask(r) \/ Put(r)
    <2>1. verify[r].pc # "idle"
        BY <1>4 DEF Look, Ask, Put
    <2>2. QED BY <1>4, <2>1, LookStep, AskStep, PutStep
<1>5. QED
    BY <1>1, <1>2, <1>3, <1>4 DEF Resolve

\* Time and the provider move.  A key withdrawn counts as retired only when no client
\* is young; one that is published again no longer does.
LEMMA EnvironmentStep ==
    ASSUME KeysInv, Environment
    PROVE  KeysInv' /\ \A q \in Requests : verify'[q].pc = verify[q].pc
<1>1. ASSUME NEW k \in Kids, Publish(k)
      PROVE  KeysInv' /\ \A q \in Requests : verify'[q].pc = verify[q].pc
    <2>1. /\ verify' \in [Requests -> Verification]
          /\ \A q \in Requests :
                /\ verify'[q].pc = verify[q].pc /\ verify'[q].kid = verify[q].kid
                /\ verify'[q].client = verify[q].client /\ verify'[q].answer = verify[q].answer
                /\ verify'[q].late => verify[q].late /\ verify[q].kid # k
          /\ UNCHANGED <<up, clients, mayRefetch>>
          /\ published' = published \cup {k} /\ retired' = retired \ {k}
        BY <1>1, ZenonT(40) DEF Publish, KeysInv, Verification, cache
    <2>2. changes' \in 0..MaxChanges
        BY <1>1, KeysAssumption DEF Publish, Change, KeysInv, KeysTypeOK
    <2>3. KeysTypeOK' /\ AnswersAreUsed' /\ KeysAreNamed' /\ CurrentIsYoung' /\ RetiredKeysExpire'
        BY <2>1, <2>2 DEF KeysInv, KeysTypeOK, AnswersAreUsed, KeysAreNamed, CurrentIsYoung, RetiredKeysExpire
    <2>4. \A i, j : Clean(i, j) => Clean(i, j)'
        BY <2>1 DEF Clean
    <2>5. YoungAreClean' /\ LateMeetClean'
        BY <2>1, <2>4 DEF KeysInv, YoungAreClean, LateMeetClean
    <2>6. QED BY <2>1, <2>3, <2>5 DEF KeysInv
<1>2. ASSUME NEW k \in Kids, Retire(k)
      PROVE  KeysInv' /\ \A q \in Requests : verify'[q].pc = verify[q].pc
    <2>1. /\ verify' \in [Requests -> Verification]
          /\ \A q \in Requests :
                /\ verify'[q].pc = verify[q].pc /\ verify'[q].kid = verify[q].kid
                /\ verify'[q].client = verify[q].client /\ verify'[q].answer = verify[q].answer
                /\ verify'[q].late = verify[q].late
          /\ UNCHANGED <<up, clients, mayRefetch, retired>>
          /\ published' = published \ {k}
        BY <1>2, ZenonT(40) DEF Retire, KeysInv, Verification, cache
    <2>2. changes' \in 0..MaxChanges
        BY <1>2, KeysAssumption DEF Retire, Change, KeysInv, KeysTypeOK
    <2>3. KeysTypeOK' /\ AnswersAreUsed' /\ KeysAreNamed' /\ CurrentIsYoung' /\ RetiredKeysExpire'
        BY <2>1, <2>2 DEF KeysInv, KeysTypeOK, AnswersAreUsed, KeysAreNamed, CurrentIsYoung, RetiredKeysExpire
    <2>4. \A i, j : Clean(i, j) => Clean(i, j)'
        BY <2>1 DEF Clean
    <2>5. YoungAreClean' /\ LateMeetClean'
        BY <2>1, <2>4 DEF KeysInv, YoungAreClean, LateMeetClean
    <2>6. QED BY <2>1, <2>3, <2>5 DEF KeysInv
<1>3. ASSUME Toggle \/ IntervalPasses
      PROVE  KeysInv' /\ \A q \in Requests : verify'[q].pc = verify[q].pc
    <2>1. /\ UNCHANGED <<published, clients, retired, verify>>
          /\ up' \in BOOLEAN /\ mayRefetch' \in BOOLEAN /\ (mayRefetch => mayRefetch')
        BY <1>3 DEF Toggle, IntervalPasses, KeysInv, KeysTypeOK, cache, provider
    <2>2. changes' \in 0..MaxChanges
        BY <1>3, KeysAssumption DEF Toggle, IntervalPasses, Change, KeysInv, KeysTypeOK
    <2>3. KeysTypeOK' /\ AnswersAreUsed' /\ KeysAreNamed' /\ CurrentIsYoung' /\ RetiredKeysExpire'
        <3>1. KeysTypeOK'
            BY <2>1, <2>2 DEF KeysInv, KeysTypeOK
        <3>2. CurrentIsYoung'
            BY <2>1 DEF KeysInv, CurrentIsYoung
        <3>3. QED
            BY <2>1, <3>1, <3>2 DEF KeysInv, AnswersAreUsed, KeysAreNamed, RetiredKeysExpire
    <2>4. \A i, j : Clean(i, j) => Clean(i, j)'
        BY <2>1 DEF Clean
    <2>5. YoungAreClean' /\ LateMeetClean'
        BY <2>1, <2>4 DEF KeysInv, YoungAreClean, LateMeetClean
    <2>6. QED BY <2>1, <2>3, <2>5 DEF KeysInv
<1>4. ASSUME TTLPasses
      PROVE  KeysInv' /\ \A q \in Requests : verify'[q].pc = verify[q].pc
    <2>1. /\ verify' \in [Requests -> Verification]
          /\ \A q \in Requests :
                /\ verify'[q].pc = verify[q].pc /\ verify'[q].kid = verify[q].kid
                /\ verify'[q].client = verify[q].client /\ verify'[q].answer = verify[q].answer
                /\ verify'[q].late = verify[q].late
          /\ UNCHANGED <<up, published>> /\ mayRefetch' = TRUE /\ retired' = Kids \ published
        BY <1>4, ZenonT(40) DEF TTLPasses, KeysInv, Verification, provider
    <2>2. /\ clients' \in Seq(Client) /\ Len(clients') = Len(clients)
          /\ \A i \in 1..Len(clients) : clients'[i].old /\ clients'[i].known = clients[i].known
                                        /\ clients'[i].jwks = clients[i].jwks
        <3>1. clients \in Seq(Client)
            BY DEF KeysInv, KeysTypeOK
        <3>2. \A i \in 1..Len(clients) : clients[i] \in Client
            BY <3>1
        <3>3. \A i \in 1..Len(clients) :
                /\ [clients[i] EXCEPT !.old = TRUE] \in Client /\ [clients[i] EXCEPT !.old = TRUE].old
                /\ [clients[i] EXCEPT !.old = TRUE].known = clients[i].known
                /\ [clients[i] EXCEPT !.old = TRUE].jwks = clients[i].jwks
            BY <3>2 DEF Client
        <3>4. clients' = [i \in 1..Len(clients) |-> [clients[i] EXCEPT !.old = TRUE]]
            BY <1>4, <3>1 DEF TTLPasses
        <3>5. Len(clients) \in Nat
            BY <3>1
        <3>6. clients' \in Seq(Client) /\ Len(clients') = Len(clients)
            BY <3>3, <3>4, <3>5
        <3>7. \A i \in 1..Len(clients) : clients'[i] = [clients[i] EXCEPT !.old = TRUE]
            BY <3>4
        <3>8. QED BY <3>3, <3>6, <3>7
    <2>3. changes' \in 0..MaxChanges
        BY <1>4, KeysAssumption DEF TTLPasses, Change, KeysInv, KeysTypeOK
    <2>4. KeysTypeOK' /\ AnswersAreUsed' /\ KeysAreNamed' /\ CurrentIsYoung' /\ RetiredKeysExpire'
        <3>1. KeysTypeOK'
            BY <2>1, <2>2, <2>3 DEF KeysInv, KeysTypeOK
        <3>2. QED
            BY <2>1, <3>1 DEF KeysInv, AnswersAreUsed, KeysAreNamed, CurrentIsYoung, RetiredKeysExpire
    <2>5. ASSUME NEW i \in 1..Len(clients), NEW j, Clean(i, j)
          PROVE  Clean(i, j)'
        BY <2>1, <2>2, <2>5 DEF Clean
    <2>6. YoungAreClean'
        BY <2>1, <2>2 DEF YoungAreClean
    <2>7. LateMeetClean'
        <3>1. ASSUME NEW q \in Requests, verify[q].late
              PROVE  verify[q].kid \in Kids \ published
            BY <3>1 DEF KeysInv, LateMeetClean, YoungAreClean, KeysTypeOK
        <3>2. ASSUME NEW q \in Requests, verify[q].late, verify[q].client # 0
              PROVE  Clean(verify[q].client, verify[q].kid)'
            <4>1. Clean(verify[q].client, verify[q].kid) /\ verify[q].client \in 1..Len(clients)
                BY <3>2 DEF KeysInv, LateMeetClean, KeysTypeOK
            <4>2. PICK i, k : i = verify[q].client /\ k = verify[q].kid
                OBVIOUS
            <4>3. Clean(i, k)'
                BY <2>5, <4>1, <4>2
            <4>4. verify'[q].client = i /\ verify'[q].kid = k
                BY <2>1, <4>2
            <4>5. QED BY <4>3, <4>4, <4>2
        <3>3. QED BY <2>1, <3>1, <3>2 DEF LateMeetClean
    <2>8. QED BY <2>1, <2>4, <2>6, <2>7 DEF KeysInv
<1>5. QED
    BY <1>1, <1>2, <1>3, <1>4 DEF Environment

\* Nothing happens to the keys, whatever is counted.
LEMMA KeysAlone ==
    ASSUME KeysInv, changes' \in 0..MaxChanges, UNCHANGED <<provider, cache, retired, verify>>
    PROVE  KeysInv'
<1>1. UNCHANGED <<published, up, clients, mayRefetch, retired, verify>>
    BY DEF provider, cache
<1>2. \A i, j : Clean(i, j) <=> Clean(i, j)'
    BY <1>1 DEF Clean
<1>3. QED
    BY <1>1, <1>2 DEF KeysInv, KeysTypeOK, AnswersAreUsed, KeysAreNamed, CurrentIsYoung, RetiredKeysExpire,
                      YoungAreClean, LateMeetClean

-----------------------------------------------------------------------------
(* What a step does to the sessions.                                       *)

\* The settings of a session are those of the policies.
LEMMA SettingsTyped ==
    /\ NoSettings \in Settings /\ NoSettings.tenant = None /\ NoSettings.user = None
    /\ \A q \in Position : q.pc \in Working /\ q.token # None => Scope(q) \in Settings
BY AccessAssumption DEF NoSettings, Settings, Scope, Position

\* While the memberships stay as they are, so does what anyone is granted.
LEMMA GrantsStay ==
    ASSUME UNCHANGED member
    PROVE  \A u : Grants(u)' = Grants(u)
BY DEF Grants, Active, Live

\* What is granted is a tenant and a role.
LEMMA GrantsTyped ==
    ASSUME member \in [Users \X Tenants -> Membership], NEW u
    PROVE  Grants(u) \subseteq Tenants \X (DOMAIN Roles \cup {None})
BY DEF Grants, Active, Live, Membership

\* The connection a request holds, and no other.
LEMMA HeldIsOne ==
    ASSUME AccessInv, NEW r \in Requests, request[r].pc \in InSession
    PROVE  /\ Held(r) \in Connections /\ conn[Held(r)].holder = r
           /\ \A c \in Connections : conn[c].holder = r => c = Held(r)
<1>1. r # None
    BY AccessAssumption
<1>2. \E c \in Connections : conn[c].holder = r
    BY DEF AccessInv, ConnectionsAreScoped
<1>3. Held(r) \in Connections /\ conn[Held(r)].holder = r
    BY <1>2 DEF Held
<1>4. QED
    BY <1>1, <1>3 DEF AccessInv, ConnectionsAreScoped

\* A request that has no session takes a free connection, with its settings.
LEMMA OpenStep ==
    ASSUME AccessInv, NEW r \in Requests, NEW settings, NEW pc \in InSession,
           request[r].pc \in Working \ InSession, pc \in Acting => request[r].pc \in Acting,
           Open(r, settings, pc), settings = Scope([request[r] EXCEPT !.pc = pc]),
           UNCHANGED <<member, live>>
    PROVE  AccessInv' /\ request'[r].pc = pc /\ \A q \in Requests : q # r => request'[q] = request[q]
<1>1. PICK c \in Connections :
          /\ conn[c].holder = None
          /\ conn' = [conn EXCEPT ![c] = [Local(c, settings) EXCEPT !.holder = r]]
          /\ request' = [request EXCEPT ![r].pc = pc]
    BY DEF Open
<1>2. r # None
    BY AccessAssumption
<1>3. request[r] \in Position /\ request[r].token # None
    BY DEF AccessInv, RequestsAreLawful, Lawful
<1>4. PICK q \in Position : q = [request[r] EXCEPT !.pc = pc]
    BY <1>3 DEF Position, Working
<1>5. /\ request' = [request EXCEPT ![r] = q]
      /\ request' \in [Requests -> Position] /\ request'[r] = q
      /\ \A p \in Requests : p # r => request'[p] = request[p]
      /\ q.pc = pc /\ q.token = request[r].token /\ q.tenant = request[r].tenant
      /\ q.role = request[r].role /\ q.granted = request[r].granted
    BY <1>1, <1>3, <1>4 DEF AccessInv, Position
<1>6. settings \in Settings /\ settings = Scope(q)
    BY <1>3, <1>4, <1>5, SettingsTyped DEF Working
<1>7. /\ conn' \in [Connections -> Connection]
      /\ conn'[c].holder = r /\ conn'[c].local = settings /\ conn'[c].kept = conn[c].kept
      /\ \A d \in Connections : d # c => conn'[d] = conn[d]
    BY <1>1, <1>6 DEF Local, AccessInv, Connection
<1>8. \A d \in Connections : conn[d].holder # r
    BY <1>2 DEF AccessInv, ConnectionsAreScoped
<1>9. ConnectionsAreScoped'
    <2>1. \A d \in Connections : conn[d].holder # None => conn[d].holder \in Requests \ {r}
        BY <1>8 DEF AccessInv, Connection
    <2>2. \A d \in Connections : conn'[d].kept = NoSettings /\ (conn'[d].holder = None => conn'[d].local = NoSettings)
        BY <1>2, <1>7 DEF AccessInv, ConnectionsAreScoped
    <2>3. \A d \in Connections : conn'[d].holder # None =>
              request'[conn'[d].holder].pc \in InSession /\ conn'[d].local = Scope(request'[conn'[d].holder])
        BY <1>5, <1>6, <1>7, <2>1 DEF AccessInv, ConnectionsAreScoped
    <2>4. \A d, e \in Connections : conn'[d].holder = conn'[e].holder /\ conn'[d].holder # None => d = e
        BY <1>2, <1>7, <1>8 DEF AccessInv, ConnectionsAreScoped
    <2>5. \A p \in Requests : request'[p].pc \in InSession => \E d \in Connections : conn'[d].holder = p
        <3>1. ASSUME NEW p \in Requests, p # r, request'[p].pc \in InSession
              PROVE  \E d \in Connections : conn'[d].holder = p
            <4>1. PICK d \in Connections : conn[d].holder = p
                BY <1>5, <3>1 DEF AccessInv, ConnectionsAreScoped
            <4>2. p # None
                BY AccessAssumption
            <4>3. QED BY <1>1, <1>7, <4>1, <4>2
        <3>2. QED BY <1>7, <3>1
    <2>6. QED BY <2>2, <2>3, <2>4, <2>5 DEF ConnectionsAreScoped
<1>10. Lawful(q)'
    <2>1. Lawful(request[r])
        BY DEF AccessInv, RequestsAreLawful
    <2>2. QED BY <1>3, <1>5, <2>1, GrantsStay DEF Lawful
<1>11. RequestsAreLawful'
    <2>1. \A p \in Requests : p # r => Lawful(request[p])'
        BY <1>5, GrantsStay, SMTT(30) DEF AccessInv, RequestsAreLawful, Lawful
    <2>2. QED BY <1>5, <1>10, <2>1 DEF RequestsAreLawful
<1>12. QED
    BY <1>5, <1>7, <1>9, <1>11 DEF AccessInv

\* A request ends its session: the connection goes back clean.
LEMMA CloseStep ==
    ASSUME AccessInv, NEW r \in Requests, NEW now, request[r].pc \in InSession,
           Close(r, now), Lawful(now), now.pc \notin InSession, UNCHANGED <<member, live>>
    PROVE  AccessInv' /\ request'[r] = now /\ \A q \in Requests : q # r => request'[q] = request[q]
<1>1. PICK c \in Connections : c = Held(r) /\ conn[c].holder = r /\ \A d \in Connections : conn[d].holder = r => d = c
    BY HeldIsOne
<1>2. /\ request' \in [Requests -> Position] /\ request'[r] = now
      /\ \A p \in Requests : p # r => request'[p] = request[p]
    BY DEF Close, AccessInv, Lawful
<1>3. conn' = [conn EXCEPT ![c] = [@ EXCEPT !.holder = None, !.local = NoSettings]]
    BY <1>1 DEF Close, Returned
<1>4. /\ conn' \in [Connections -> Connection]
      /\ conn'[c].holder = None /\ conn'[c].local = NoSettings /\ conn'[c].kept = conn[c].kept
      /\ \A d \in Connections : d # c => conn'[d] = conn[d]
    BY <1>3, SettingsTyped DEF AccessInv, Connection
<1>5. ConnectionsAreScoped'
    <2>1. \A d \in Connections : d # c /\ conn[d].holder # None => conn[d].holder \in Requests \ {r}
        BY <1>1 DEF AccessInv, Connection
    <2>2. \A d \in Connections : conn'[d].kept = NoSettings /\ (conn'[d].holder = None => conn'[d].local = NoSettings)
        BY <1>4 DEF AccessInv, ConnectionsAreScoped
    <2>3. \A d \in Connections : conn'[d].holder # None =>
              request'[conn'[d].holder].pc \in InSession /\ conn'[d].local = Scope(request'[conn'[d].holder])
        BY <1>2, <1>4, <2>1 DEF AccessInv, ConnectionsAreScoped
    <2>4. \A d, e \in Connections : conn'[d].holder = conn'[e].holder /\ conn'[d].holder # None => d = e
        BY <1>4 DEF AccessInv, ConnectionsAreScoped
    <2>5. \A p \in Requests : request'[p].pc \in InSession => \E d \in Connections : conn'[d].holder = p
        <3>1. ASSUME NEW p \in Requests, request'[p].pc \in InSession
              PROVE  \E d \in Connections : conn'[d].holder = p
            <4>1. p # r
                BY <1>2, <3>1
            <4>2. PICK d \in Connections : conn[d].holder = p
                BY <1>2, <3>1, <4>1 DEF AccessInv, ConnectionsAreScoped
            <4>3. QED BY <1>1, <1>4, <4>1, <4>2
        <3>2. QED BY <3>1
    <2>6. QED BY <2>2, <2>3, <2>4, <2>5 DEF ConnectionsAreScoped
<1>6. RequestsAreLawful'
    BY <1>2, GrantsStay DEF AccessInv, RequestsAreLawful, Lawful
<1>7. QED
    BY <1>2, <1>4, <1>5, <1>6 DEF AccessInv

\* A request moves on, with or without a session, whose settings still fit it.
LEMMA MoveStep ==
    ASSUME AccessInv, NEW r \in Requests, NEW now, request' = [request EXCEPT ![r] = now],
           Lawful(now), UNCHANGED <<member, live, conn>>,
           \/ request[r].pc \notin InSession /\ now.pc \notin InSession
           \/ request[r].pc \in InSession /\ now.pc \in InSession /\ Scope(now) = Scope(request[r])
    PROVE  AccessInv' /\ request'[r] = now /\ \A q \in Requests : q # r => request'[q] = request[q]
<1>1. /\ request' \in [Requests -> Position] /\ request'[r] = now
      /\ \A p \in Requests : p # r => request'[p] = request[p]
    BY DEF AccessInv, Lawful
<1>2. ConnectionsAreScoped'
    BY <1>1 DEF AccessInv, ConnectionsAreScoped
<1>3. RequestsAreLawful'
    BY <1>1, GrantsStay DEF AccessInv, RequestsAreLawful, Lawful
<1>4. QED
    BY <1>1, <1>2, <1>3 DEF AccessInv

\* The memberships change: every request takes note of those of its user.
LEMMA AdministeredStep ==
    ASSUME AccessInv, NEW after, after \in [Users \X Tenants -> Membership], member' = after,
           live' \subseteq Tenants, UNCHANGED conn,
           \A s \in Requests :
                /\ request'[s] = Noted(after)[s]
                   \/ /\ request[s].pc = "elevated"
                      /\ request'[s] = [Noted(after)[s] EXCEPT !.pc = "answered"],
           request' \in [Requests -> Position]
    PROVE  AccessInv'
<1>1. ASSUME NEW s \in Requests
      PROVE  /\ request'[s].token = request[s].token /\ request'[s].tenant = request[s].tenant
             /\ request'[s].role = request[s].role
             /\ request'[s].pc = request[s].pc \/ (request[s].pc = "elevated" /\ request'[s].pc = "answered")
             /\ request[s].granted \subseteq request'[s].granted
             /\ request[s].token # None =>
                    {<<t, after[<<User(s), t>>].role>> : t \in {t \in Tenants : after[<<User(s), t>>].active}}
                        \subseteq request'[s].granted
    <2>1. request[s] \in Position
        BY DEF AccessInv
    <2>2. PICK more : more = {<<t, after[<<User(s), t>>].role>> : t \in {t \in Tenants : after[<<User(s), t>>].active}}
        OBVIOUS
    <2>3. Noted(after)[s] = IF request[s].token = None THEN request[s]
                            ELSE [request[s] EXCEPT !.granted = @ \cup more]
        BY <2>2 DEF Noted
    <2>4. PICK q : /\ q = Noted(after)[s]
                   /\ q.token = request[s].token /\ q.tenant = request[s].tenant /\ q.role = request[s].role
                   /\ q.pc = request[s].pc /\ request[s].granted \subseteq q.granted
                   /\ request[s].token # None => more \subseteq q.granted
        BY <2>1, <2>3 DEF Position
    <2>5. PICK p : p = [q EXCEPT !.pc = "answered"]
        OBVIOUS
    <2>6. /\ p.token = q.token /\ p.tenant = q.tenant /\ p.role = q.role
          /\ p.pc = "answered" /\ p.granted = q.granted
        <3>1. CASE request[s].token = None
            BY <2>1, <2>3, <2>4, <2>5, <3>1 DEF Position
        <3>2. CASE request[s].token # None
            <4>1. q = [request[s] EXCEPT !.granted = @ \cup more]
                BY <2>3, <2>4, <3>2
            <4>2. QED BY <2>1, <2>5, <4>1 DEF Position
        <3>3. QED BY <3>1, <3>2
    <2>7. request'[s] = q \/ (request[s].pc = "elevated" /\ request'[s] = p)
        BY <2>4, <2>5
    <2>8. QED BY <2>2, <2>4, <2>6, <2>7
<1>2. ASSUME NEW s \in Requests, request[s].token # None
      PROVE  Grants(User(s))' \subseteq request'[s].granted
    <2>1. User(s)' = User(s)
        BY <1>1 DEF User
    <2>2. ASSUME NEW g \in Grants(User(s))'
          PROVE  g \in {<<t, after[<<User(s), t>>].role>> : t \in {t \in Tenants : after[<<User(s), t>>].active}}
        <3>1. PICK m \in Users \X Tenants : g = <<m[2], after[m].role>> /\ m[1] = User(s) /\ after[m].active
            BY <2>1, <2>2 DEF Grants, Active, Live
        <3>2. m = <<User(s), m[2]>> /\ m[2] \in Tenants
            BY <3>1
        <3>3. QED BY <3>1, <3>2
    <2>3. QED BY <1>1, <1>2, <2>2
<1>3. RequestsAreLawful'
    <2>1. ASSUME NEW s \in Requests
          PROVE  Lawful(request[s])'
        <3>1. Lawful(request[s]) /\ request'[s] \in Position
            BY DEF AccessInv, RequestsAreLawful
        <3>2. /\ request'[s].pc \in Working <=> request[s].pc \in Working
              /\ request'[s].pc \in Acting <=> request[s].pc \in Acting
            BY <1>1 DEF Working, Acting
        <3>3. request[s].token # None => Grants(request[s].token.user)' \subseteq request'[s].granted
            BY <1>1, <1>2 DEF User
        <3>4. QED BY <1>1, <3>1, <3>2, <3>3 DEF Lawful
    <2>2. QED BY <2>1 DEF RequestsAreLawful
<1>4. ConnectionsAreScoped'
    <2>1. \A s \in Requests : request'[s].pc \in InSession <=> request[s].pc \in InSession
        BY <1>1 DEF InSession
    <2>2. \A s \in Requests : request[s].pc \in InSession => Scope(request'[s]) = Scope(request[s])
        BY <1>1 DEF Scope, InSession
    <2>3. \A c \in Connections : conn[c].holder # None => conn[c].holder \in Requests
        BY DEF AccessInv, Connection
    <2>4. QED BY <2>1, <2>2, <2>3 DEF AccessInv, ConnectionsAreScoped
<1>5. QED
    BY <1>3, <1>4 DEF AccessInv

-----------------------------------------------------------------------------
(* The steps of a request.                                                 *)

\* A request that is over, or has not begun, has no token and no tenant.
LEMMA OverIsLawful ==
    /\ \A r, answer : answer \in {"forbidden", "unauthenticated", "error"} =>
            Lawful(Over(r, answer)) /\ Over(r, answer).pc = answer
    /\ Lawful(NoRequest) /\ NoRequest.pc = "idle"
<1>1. ASSUME NEW pc \in {"idle", "forbidden", "unauthenticated", "error"}
      PROVE  Lawful([NoRequest EXCEPT !.pc = pc]) /\ [NoRequest EXCEPT !.pc = pc].pc = pc
    BY DEF Lawful, NoRequest, Position, Working, Acting, InSession
<1>2. NoRequest = [NoRequest EXCEPT !.pc = "idle"]
    BY DEF NoRequest
<1>3. QED
    BY <1>1, <1>2 DEF Over

\* A request that moves on keeps its token and its membership.
LEMMA MovedIsLawful ==
    ASSUME NEW q, Lawful(q), NEW pc \in Working,
           q.pc \in Working, pc \in Acting => q.pc \in Acting
    PROVE  /\ Lawful([q EXCEPT !.pc = pc]) /\ [q EXCEPT !.pc = pc].pc = pc
           /\ [q EXCEPT !.pc = pc].token = q.token /\ [q EXCEPT !.pc = pc].tenant = q.tenant
BY DEF Lawful, Position

\* What a request does of its own accord, given what its steps have in common.
Moves(r) ==
    /\ AccessInv'
    /\ request[r].pc # "verifying" /\ request'[r].pc # "verifying"
    /\ \A q \in Requests : q # r => request'[q] = request[q]

\* The sessions of a request are opened with the scope of what follows.
LEMMA OpensMove ==
    ASSUME AccessInv, NEW r \in Requests, OpenUnscoped(r) \/ OpenPrincipal(r) \/ OpenTenant(r)
    PROVE  Moves(r)
<1>1. Lawful(request[r]) /\ request[r] \in Position
    BY DEF AccessInv, RequestsAreLawful
<1>2. UNCHANGED <<member, live>>
    BY DEF OpenUnscoped, OpenPrincipal, OpenTenant
<1>3. ASSUME NEW from \in {"verified", "resolved", "known", "context"}, NEW pc \in InSession, NEW settings,
             request[r].pc = from, Open(r, settings, pc), pc \in Acting => from \in Acting,
             settings = Scope([request[r] EXCEPT !.pc = pc])
      PROVE  Moves(r)
    <2>1. request[r].pc \in Working \ InSession /\ pc # "verifying"
        BY <1>3 DEF Working, InSession
    <2>2. AccessInv' /\ request'[r].pc = pc /\ \A q \in Requests : q # r => request'[q] = request[q]
        BY <1>2, <1>3, <2>1, OpenStep
    <2>3. QED BY <1>3, <2>1, <2>2 DEF Moves
<1>4. \A pc : /\ [request[r] EXCEPT !.pc = pc].pc = pc
              /\ [request[r] EXCEPT !.pc = pc].token = request[r].token
              /\ [request[r] EXCEPT !.pc = pc].tenant = request[r].tenant
    BY <1>1 DEF Position
<1>5. CASE At(r, "verified") /\ Open(r, NoSettings, "principal")
    <2>1. NoSettings = Scope([request[r] EXCEPT !.pc = "principal"])
        BY <1>4 DEF Scope
    <2>2. QED BY <1>3, <1>5, <2>1 DEF At, InSession, Acting
<1>6. CASE At(r, "resolved") /\ Open(r, NoSettings, "slug")
    <2>1. NoSettings = Scope([request[r] EXCEPT !.pc = "slug"])
        BY <1>4 DEF Scope
    <2>2. QED BY <1>3, <1>6, <2>1 DEF At, InSession, Acting
<1>7. CASE OpenPrincipal(r)
    <2>1. PICK settings : settings = [NoSettings EXCEPT !.user = User(r)]
        OBVIOUS
    <2>2. settings = Scope([request[r] EXCEPT !.pc = "memberships"])
        BY <1>4, <2>1 DEF Scope, NoSettings, User
    <2>3. request[r].pc = "known" /\ Open(r, settings, "memberships")
        BY <1>7, <2>1 DEF OpenPrincipal, At
    <2>4. QED BY <1>3, <2>2, <2>3 DEF InSession, Acting
<1>8. CASE OpenTenant(r)
    <2>1. PICK settings : settings = [NoSettings EXCEPT !.tenant = request[r].tenant]
        OBVIOUS
    <2>2. settings = Scope([request[r] EXCEPT !.pc = "rows"])
        BY <1>4, <2>1 DEF Scope, NoSettings
    <2>3. request[r].pc = "context" /\ Open(r, settings, "rows")
        BY <1>8, <2>1 DEF OpenTenant, At
    <2>4. QED BY <1>3, <2>2, <2>3 DEF InSession, Acting
<1>9. QED
    BY <1>5, <1>6, <1>7, <1>8 DEF OpenUnscoped

\* A request that ends its session moves on lawfully, or is over.
LEMMA ClosesMove ==
    ASSUME AccessInv, NEW r \in Requests, request[r].pc \in InSession, NEW now, Close(r, now),
           UNCHANGED <<member, live>>, Lawful(now), now.pc \notin InSession, now.pc # "verifying"
    PROVE  Moves(r)
BY CloseStep DEF Moves, InSession

\* A request moves on in its session, or without one.
LEMMA GoesMove ==
    ASSUME AccessInv, NEW r \in Requests, NEW now, request' = [request EXCEPT ![r] = now],
           UNCHANGED <<member, live, conn>>, Lawful(now), request[r].pc # "verifying", now.pc # "verifying",
           \/ request[r].pc \notin InSession /\ now.pc \notin InSession
           \/ request[r].pc \in InSession /\ now.pc \in InSession /\ Scope(now) = Scope(request[r])
    PROVE  Moves(r)
BY MoveStep DEF Moves

\* Every step of a request after its token has been verified.
LEMMA ServeStep ==
    ASSUME AccessInv, NEW r \in Requests, Serve(r)
    PROVE  Moves(r)
<1>1. Lawful(request[r]) /\ request[r] \in Position
    BY DEF AccessInv, RequestsAreLawful
<1>2. ASSUME NEW answer \in {"forbidden", "unauthenticated", "error"}
      PROVE  /\ Lawful(Over(r, answer)) /\ Over(r, answer).pc = answer
             /\ answer \notin InSession /\ answer # "verifying"
    BY OverIsLawful DEF InSession
<1>3. ASSUME NEW answer \in {"forbidden", "unauthenticated", "error"}, request[r].pc \in InSession,
             Close(r, Over(r, answer)), UNCHANGED <<member, live>>
      PROVE  Moves(r)
    BY <1>2, <1>3, ClosesMove
<1>4. ASSUME NEW pc \in Working \ InSession, request[r].pc \in InSession, pc # "verifying",
             pc \in Acting => request[r].pc \in Acting,
             Close(r, [request[r] EXCEPT !.pc = pc]), UNCHANGED <<member, live>>
      PROVE  Moves(r)
    <2>1. PICK now : now = [request[r] EXCEPT !.pc = pc]
        OBVIOUS
    <2>2. Lawful(now) /\ now.pc = pc
        BY <1>1, <1>4, <2>1, MovedIsLawful DEF Working
    <2>3. QED BY <1>4, <2>1, <2>2, ClosesMove
<1>5. CASE OpenUnscoped(r) \/ OpenPrincipal(r) \/ OpenTenant(r)
    BY <1>5, OpensMove
<1>6. CASE LoadPrincipal(r)
    <2>1. "principal" \in InSession /\ "known" \in Working \ InSession /\ "known" \notin Acting
        BY DEF Working, InSession, Acting
    <2>2. request[r].pc = "principal" /\ UNCHANGED <<member, live>>
        BY <1>6 DEF LoadPrincipal, At
    <2>3. CASE User(r) \in Enabled
        <3>1. Close(r, [request[r] EXCEPT !.pc = "known"])
            BY <1>6, <2>3 DEF LoadPrincipal
        <3>2. QED BY <1>4, <2>1, <2>2, <3>1
    <2>4. CASE User(r) \notin Enabled
        <3>1. Close(r, Over(r, "unauthenticated"))
            BY <1>6, <2>4 DEF LoadPrincipal
        <3>2. QED BY <1>3, <2>1, <2>2, <3>1
    <2>5. QED BY <2>3, <2>4
<1>7. CASE ReadMemberships(r)
    <2>1. "memberships" \in InSession /\ "memberships" \in Working /\ "capabilities" \in InSession
          /\ "capabilities" \in Working
        BY DEF InSession, Working
    <2>2. request[r].pc = "memberships" /\ UNCHANGED <<member, live>>
        BY <1>7 DEF ReadMemberships, At
    <2>3. CASE Close(r, Over(r, "forbidden"))
        BY <1>3, <2>1, <2>2, <2>3
    <2>4. ASSUME NEW t \in Chosen(r), UNCHANGED conn,
                 request' = [request EXCEPT ![r].pc = "capabilities", ![r].tenant = t,
                                            ![r].role = member[<<User(r), t>>].role]
          PROVE  Moves(r)
        <3>1. PICK m \in Active(User(r)) : m[2] = t
            BY <2>4 DEF Chosen, Available
        <3>2. /\ m \in Users \X Tenants /\ m[1] = User(r) /\ member[m].role \in DOMAIN Roles
            BY <3>1 DEF Active, Live, AccessInv, Membership
        <3>3. m = <<User(r), t>> /\ t \in Tenants
            BY <3>1, <3>2
        <3>4. PICK role \in DOMAIN Roles : role = member[m].role
            BY <3>2
        <3>5. <<t, role>> \in Grants(User(r))
            BY <3>1, <3>4 DEF Grants
        <3>6. PICK now : now = [request[r] EXCEPT !.pc = "capabilities", !.tenant = t, !.role = role]
            OBVIOUS
        <3>7. /\ now \in Position /\ now.pc = "capabilities" /\ now.tenant = t /\ now.role = role
              /\ now.token = request[r].token /\ now.granted = request[r].granted
            BY <1>1, <2>1, <3>3, <3>6 DEF Position
        <3>8. t # None /\ role # None
            BY <3>3, AccessAssumption
        <3>9. Lawful(now)
            BY <1>1, <2>1, <2>2, <3>5, <3>7, <3>8 DEF Lawful, User
        <3>10. Scope(now) = Scope(request[r])
            BY <2>2, <3>7 DEF Scope
        <3>11. request' = [request EXCEPT ![r] = now]
            BY <2>4, <3>3, <3>4, <3>6
        <3>12. QED BY <2>1, <2>2, <2>4, <3>7, <3>9, <3>10, <3>11, GoesMove
    <2>5. QED BY <1>7, <2>3, <2>4 DEF ReadMemberships
<1>8. CASE LoadCapabilities(r)
    <2>1. /\ request[r].pc = "capabilities" /\ UNCHANGED <<member, live>>
          /\ "capabilities" \in InSession /\ "capabilities" \in Acting /\ "capabilities" \in Working
          /\ "resolved" \in Working \ InSession
        BY <1>8 DEF LoadCapabilities, At, InSession, Acting, Working
    <2>2. PICK caps \in SUBSET Capabilities : caps = Roles[request[r].role]
        BY <1>1, <2>1 DEF Lawful, Capabilities
    <2>3. PICK now : now = [request[r] EXCEPT !.pc = "resolved", !.caps = caps]
        OBVIOUS
    <2>4. /\ now \in Position /\ now.pc = "resolved" /\ now.tenant = request[r].tenant
          /\ now.role = request[r].role /\ now.token = request[r].token /\ now.granted = request[r].granted
        BY <1>1, <2>1, <2>2, <2>3 DEF Position
    <2>5. Lawful(now)
        BY <1>1, <2>1, <2>4 DEF Lawful
    <2>6. Close(r, now)
        BY <1>8, <2>2, <2>3 DEF LoadCapabilities
    <2>7. QED BY <2>1, <2>4, <2>5, <2>6, ClosesMove
<1>9. CASE ReadSlug(r)
    <2>1. /\ request[r].pc = "slug" /\ UNCHANGED <<member, live>> /\ "slug" \in InSession
          /\ "slug" \in Acting /\ "context" \in Working \ InSession
        BY <1>9 DEF ReadSlug, At, InSession, Working, Acting
    <2>2. Close(r, [request[r] EXCEPT !.pc = "context"]) \/ Close(r, Over(r, "error"))
        BY <1>9 DEF ReadSlug
    <2>3. QED BY <1>3, <1>4, <2>1, <2>2
<1>10. CASE ListMemberships(r) \/ \E named \in Tenants : ReadTenant(r, named)
    <2>1. /\ request[r].pc = "rows" /\ UNCHANGED <<member, live>> /\ "rows" \in InSession
          /\ "rows" \in Acting /\ "rows" \in Working
          /\ "leave" \in InSession /\ "leave" \in Working /\ "leave" \in Acting
        BY <1>10 DEF ListMemberships, ReadTenant, At, InSession, Working, Acting
    <2>2. \/ Close(r, Over(r, "forbidden"))
          \/ UNCHANGED conn /\ \E seen \in SUBSET (Users \X Tenants) :
                request' = [request EXCEPT ![r].pc = "leave", ![r].rows = seen]
          \/ UNCHANGED conn /\ request' = [request EXCEPT ![r].pc = "leave"]
        <3>1. Visible(Held(r)) \subseteq Users \X Tenants
            BY DEF Visible, Live, AccessInv
        <3>2. QED BY <1>10, <3>1 DEF ListMemberships, ReadTenant
    <2>3. CASE Close(r, Over(r, "forbidden"))
        BY <1>3, <2>1, <2>3
    <2>4. ASSUME NEW now, request' = [request EXCEPT ![r] = now], UNCHANGED conn,
                 now \in Position, now.pc = "leave", now.tenant = request[r].tenant,
                 now.role = request[r].role, now.token = request[r].token, now.granted = request[r].granted
          PROVE  Moves(r)
        <3>1. Lawful(now)
            BY <1>1, <2>1, <2>4 DEF Lawful
        <3>2. Scope(now) = Scope(request[r])
            BY <2>1, <2>4 DEF Scope
        <3>3. QED BY <2>1, <2>4, <3>1, <3>2, GoesMove
    <2>5. ASSUME NEW seen \in SUBSET (Users \X Tenants), UNCHANGED conn,
                 request' = [request EXCEPT ![r].pc = "leave", ![r].rows = seen]
          PROVE  Moves(r)
        <3>1. PICK now : now = [request[r] EXCEPT !.pc = "leave", !.rows = seen]
            OBVIOUS
        <3>2. /\ now \in Position /\ now.pc = "leave" /\ now.tenant = request[r].tenant
              /\ now.role = request[r].role /\ now.token = request[r].token /\ now.granted = request[r].granted
            BY <1>1, <2>1, <3>1 DEF Position
        <3>3. QED BY <2>4, <2>5, <3>1, <3>2
    <2>6. CASE UNCHANGED conn /\ request' = [request EXCEPT ![r].pc = "leave"]
        <3>1. PICK now : now = [request[r] EXCEPT !.pc = "leave"]
            OBVIOUS
        <3>2. /\ now \in Position /\ now.pc = "leave" /\ now.tenant = request[r].tenant
              /\ now.role = request[r].role /\ now.token = request[r].token /\ now.granted = request[r].granted
            BY <1>1, <2>1, <3>1 DEF Position
        <3>3. QED BY <2>4, <2>6, <3>1, <3>2
    <2>7. QED BY <2>2, <2>3, <2>5, <2>6
<1>11. CASE Leave(r)
    <2>1. /\ request[r].pc = "leave" /\ UNCHANGED <<member, live>> /\ "leave" \in InSession
          /\ "leave" \in Acting /\ "answered" \in Working \ InSession
          /\ Close(r, [request[r] EXCEPT !.pc = "answered"])
        BY <1>11 DEF Leave, At, InSession, Working, Acting
    <2>2. QED BY <1>4, <2>1
<1>12. CASE Elevate(r)
    <2>1. /\ request[r].pc = "context" /\ UNCHANGED <<member, live, conn>>
          /\ "context" \in Working /\ "context" \in Acting /\ "context" \notin InSession
          /\ "elevated" \in Working \ InSession
        BY <1>12 DEF Elevate, At, InSession, Working, Acting
    <2>2. CASE request' = [request EXCEPT ![r].pc = "elevated"]
        <3>1. PICK now : now = [request[r] EXCEPT !.pc = "elevated"]
            OBVIOUS
        <3>2. Lawful(now) /\ now.pc = "elevated"
            BY <1>1, <2>1, <3>1, MovedIsLawful
        <3>3. request' = [request EXCEPT ![r] = now]
            BY <2>2, <3>1
        <3>4. QED BY <2>1, <3>2, <3>3, GoesMove
    <2>3. CASE request' = [request EXCEPT ![r] = Over(r, "forbidden")]
        BY <1>2, <2>1, <2>3, GoesMove
    <2>4. QED BY <1>12, <2>2, <2>3 DEF Elevate
<1>13. CASE Finish(r)
    <2>1. /\ request[r].pc \notin InSession /\ request[r].pc # "verifying"
          /\ request' = [request EXCEPT ![r] = NoRequest] /\ UNCHANGED <<member, live, conn>>
          /\ "idle" \notin InSession
        BY <1>13 DEF Finish, InSession
    <2>2. QED BY <2>1, OverIsLawful, GoesMove
<1>14. CASE \E u \in Users, t \in Tenants, role \in Shipped : GrantRefused(r, u, t, role)
    <2>1. /\ request[r].pc = "elevated" /\ request[r].pc \notin InSession
          /\ request' = [request EXCEPT ![r] = Over(r, "forbidden")] /\ UNCHANGED <<member, live, conn>>
        BY <1>14 DEF GrantRefused, At, InSession
    <2>2. QED BY <1>2, <2>1, GoesMove
<1>15. QED
    BY <1>5, <1>6, <1>7, <1>8, <1>9, <1>10, <1>11, <1>12, <1>13, <1>14 DEF Serve

\* A request arrives: its user is granted what its memberships say at this moment.
LEMMA ReceiveStep ==
    ASSUME AccessInv, NEW r \in Requests, NEW token \in Tokens, Receive(r, token)
    PROVE  AccessInv' /\ request'[r].pc = "verifying" /\ \A q \in Requests : q # r => request'[q] = request[q]
<1>1. PICK granted \in SUBSET (Tenants \X (DOMAIN Roles \cup {None})) : granted = Grants(token.user)
    BY GrantsTyped DEF AccessInv
<1>2. PICK now : now = [NoRequest EXCEPT !.pc = "verifying", !.token = token, !.granted = granted]
    OBVIOUS
<1>3. /\ now \in Position /\ now.pc = "verifying" /\ now.token = token /\ now.tenant = None
      /\ now.granted = granted /\ token # None
    BY <1>1, <1>2, AccessAssumption DEF NoRequest, Position, Working
<1>4. Lawful(now)
    BY <1>1, <1>3 DEF Lawful, Acting
<1>5. /\ request' = [request EXCEPT ![r] = now] /\ UNCHANGED <<member, live, conn>>
      /\ request[r].pc \notin InSession /\ now.pc \notin InSession
    BY <1>1, <1>2, <1>3 DEF Receive, At, InSession
<1>6. QED
    BY <1>3, <1>4, <1>5, MoveStep

\* The verification ends, one way or the other.
LEMMA VerifiedStep ==
    ASSUME AccessInv, NEW r \in Requests, Authenticated(r) \/ Unauthenticated(r)
    PROVE  AccessInv' /\ request'[r].pc # "verifying" /\ \A q \in Requests : q # r => request'[q] = request[q]
<1>1. /\ Lawful(request[r]) /\ request[r].pc = "verifying" /\ "verifying" \in Working \ (InSession \cup Acting)
      /\ "verified" \in Working \ (InSession \cup Acting) /\ "unauthenticated" \notin InSession
      /\ UNCHANGED <<member, live, conn>>
    BY DEF AccessInv, RequestsAreLawful, Authenticated, Unauthenticated, At, Working, InSession, Acting
<1>2. CASE Authenticated(r)
    <2>1. PICK now : now = [request[r] EXCEPT !.pc = "verified"]
        OBVIOUS
    <2>2. Lawful(now) /\ now.pc = "verified"
        BY <1>1, <2>1, MovedIsLawful
    <2>3. request' = [request EXCEPT ![r] = now]
        BY <1>2, <2>1 DEF Authenticated
    <2>4. QED BY <1>1, <2>2, <2>3, MoveStep
<1>3. CASE Unauthenticated(r)
    <2>1. request' = [request EXCEPT ![r] = Over(r, "unauthenticated")]
        BY <1>3 DEF Unauthenticated
    <2>2. Lawful(Over(r, "unauthenticated")) /\ Over(r, "unauthenticated").pc = "unauthenticated"
        BY OverIsLawful
    <2>3. QED BY <1>1, <2>1, <2>2, MoveStep
<1>4. QED
    BY <1>2, <1>3

\* The memberships are administered, for requests at whatever step.
LEMMA AdministerStep ==
    ASSUME AccessInv, Administer
    PROVE  AccessInv' /\ \A q \in Requests : request'[q].pc = "verifying" <=> request[q].pc = "verifying"
<1>1. \A s \in Requests : Noted(member')[s] = IF request[s].token = None THEN request[s] ELSE
          [request[s] EXCEPT !.granted = @ \cup {<<t, member'[<<User(s), t>>].role>> :
              t \in {t \in Tenants : member'[<<User(s), t>>].active}}]
    BY DEF Noted
<1>2. ASSUME member' \in [Users \X Tenants -> Membership]
      PROVE  \A s \in Requests : Noted(member')[s] \in Position /\ Noted(member')[s].pc = request[s].pc
    <2> SUFFICES ASSUME NEW s \in Requests
                 PROVE  Noted(member')[s] \in Position /\ Noted(member')[s].pc = request[s].pc
        OBVIOUS
    <2>1. request[s] \in Position
        BY DEF AccessInv
    <2>2. CASE request[s].token = None
        BY <1>1, <2>1, <2>2
    <2>3. CASE request[s].token # None
        <3>1. User(s) \in Users
            BY <2>1, <2>3, AccessAssumption DEF User, Position
        <3>2. PICK more :
                 more = {<<t, member'[<<User(s), t>>].role>> : t \in {t \in Tenants : member'[<<User(s), t>>].active}}
            OBVIOUS
        <3>3. \A t \in Tenants : member'[<<User(s), t>>].role \in DOMAIN Roles \cup {None}
            BY <1>2, <3>1 DEF Membership
        <3>4. more \subseteq Tenants \X (DOMAIN Roles \cup {None})
            <4>1. ASSUME NEW g \in more
                  PROVE  g \in Tenants \X (DOMAIN Roles \cup {None})
                <5>1. PICK t \in Tenants : g = <<t, member'[<<User(s), t>>].role>>
                    BY <3>2, <4>1
                <5>2. QED BY <3>3, <5>1
            <4>2. QED BY <4>1
        <3>5. Noted(member')[s] = [request[s] EXCEPT !.granted = @ \cup more]
            BY <1>1, <2>3, <3>2
        <3>6. QED BY <2>1, <3>4, <3>5 DEF Position
    <2>4. QED BY <2>2, <2>3
<1>3. ASSUME NEW r \in Requests, NEW u \in Users, NEW t \in Tenants, NEW role \in Shipped, Grant(r, u, t, role)
      PROVE  AccessInv' /\ \A q \in Requests : request'[q].pc = "verifying" <=> request[q].pc = "verifying"
    <2>1. /\ member' \in [Users \X Tenants -> Membership] /\ live' = live /\ live \subseteq Tenants
          /\ UNCHANGED conn /\ request[r].pc = "elevated"
        BY <1>3, AccessAssumption DEF Grant, Administered, At, AccessInv, Membership
    <2>2. PICK after : after = member'
        OBVIOUS
    <2>3. /\ request' = [Noted(after) EXCEPT ![r].pc = "answered"]
          /\ \A s \in Requests : Noted(after)[s] \in Position /\ Noted(after)[s].pc = request[s].pc
        BY <1>2, <1>3, <2>1, <2>2 DEF Grant
    <2>4. DOMAIN Noted(after) = Requests /\ Noted(after) = [s \in Requests |-> Noted(after)[s]]
        BY DEF Noted
    <2>5. /\ request'[r] = [Noted(after)[r] EXCEPT !.pc = "answered"]
          /\ \A s \in Requests : s # r => request'[s] = Noted(after)[s]
        BY <2>3, <2>4
    <2>6. request'[r] \in Position /\ request'[r].pc = "answered"
        BY <2>3, <2>5 DEF Position, Working
    <2>7. request' \in [Requests -> Position]
        BY <2>3, <2>4, <2>5, <2>6
    <2>8. AccessInv'
        BY <2>1, <2>2, <2>5, <2>7, AdministeredStep
    <2>9. QED BY <2>1, <2>3, <2>5, <2>6, <2>8
<1>4. ASSUME NEW after \in [Users \X Tenants -> Membership], member' = after, live' \subseteq Tenants,
             UNCHANGED conn, request' = Noted(after)
      PROVE  AccessInv' /\ \A q \in Requests : request'[q].pc = "verifying" <=> request[q].pc = "verifying"
    <2>1. \A s \in Requests : Noted(after)[s] \in Position /\ Noted(after)[s].pc = request[s].pc
        BY <1>2, <1>4
    <2>2. request' \in [Requests -> Position]
        <3>1. Noted(after) = [s \in Requests |-> Noted(after)[s]]
            BY DEF Noted
        <3>2. QED BY <1>4, <2>1, <3>1
    <2>3. AccessInv'
        BY <1>4, <2>2, AdministeredStep
    <2>4. QED BY <1>4, <2>1, <2>3
<1>5. ASSUME NEW u \in Users, NEW t \in Tenants, Suspend(u, t)
      PROVE  AccessInv' /\ \A q \in Requests : request'[q].pc = "verifying" <=> request[q].pc = "verifying"
    <2>1. PICK after : after = [member EXCEPT ![<<u, t>>].active = ~@]
        OBVIOUS
    <2>2. after \in [Users \X Tenants -> Membership]
        <3>1. member[<<u, t>>] \in Membership
            BY DEF AccessInv
        <3>2. [member[<<u, t>>] EXCEPT !.active = ~@] \in Membership
            BY <3>1 DEF Membership
        <3>3. QED BY <2>1, <3>2 DEF AccessInv
    <2>3. member' = after /\ UNCHANGED <<conn, live>> /\ request' = Noted(after) /\ live \subseteq Tenants
        BY <1>5, <2>1 DEF Suspend, Administered, AccessInv
    <2>4. QED BY <1>4, <2>2, <2>3
<1>6. ASSUME NEW t \in Tenants, Offboard(t)
      PROVE  AccessInv' /\ \A q \in Requests : request'[q].pc = "verifying" <=> request[q].pc = "verifying"
    <2>1. PICK after : after = [m \in DOMAIN member |->
                  IF m[2] = t THEN [role |-> None, active |-> FALSE] ELSE member[m]]
        OBVIOUS
    <2>2. after \in [Users \X Tenants -> Membership]
        BY <2>1 DEF AccessInv, Membership
    <2>3. member' = after /\ UNCHANGED conn /\ live' \subseteq Tenants /\ request' = Noted(after)
        BY <1>6, <2>1 DEF Offboard, Administered, AccessInv
    <2>4. QED BY <1>4, <2>2, <2>3
<1>7. QED
    BY <1>3, <1>5, <1>6 DEF Administer

-----------------------------------------------------------------------------
(* The invariant, and what follows from it.                                *)

\* At first nothing is known of any key and nobody holds a connection.
LEMMA InitialState == Init => IInv
<1> SUFFICES ASSUME Init PROVE IInv
    OBVIOUS
<1>1. /\ Idle \in Verification /\ Idle.pc = "idle" /\ Idle.answer = NoKeys /\ ~Idle.late
      /\ Idle.kid = None /\ Idle.client = 0
    BY DEF Idle, Verification, NoKeys
<1>2. KeysInv
    BY <1>1, KeysAssumption
    DEF Init, KeysInit, KeysInv, KeysTypeOK, AnswersAreUsed, KeysAreNamed, CurrentIsYoung, YoungAreClean,
        LateMeetClean, RetiredKeysExpire
<1>3. NoSettings \in Settings
    BY SettingsTyped
<1>4. /\ member \in [Users \X Tenants -> Membership] /\ live \subseteq Tenants
      /\ conn \in [Connections -> Connection]
    BY <1>3, AccessAssumption DEF Init, AccessInit, Membership, Connection
<1>5. \A r \in Requests : request[r] = NoRequest
    BY DEF Init, AccessInit
<1>6. RequestsAreLawful
    BY <1>5, OverIsLawful DEF RequestsAreLawful
<1>7. ConnectionsAreScoped
    <2>1. \A c \in Connections : conn[c].holder = None /\ conn[c].local = NoSettings /\ conn[c].kept = NoSettings
        BY DEF Init, AccessInit
    <2>2. \A r \in Requests : request[r].pc \notin InSession
        BY <1>5, OverIsLawful DEF InSession
    <2>3. QED BY <2>1, <2>2 DEF ConnectionsAreScoped
<1>8. request \in [Requests -> Position]
    BY OverIsLawful DEF Init, AccessInit, Lawful
<1>9. Verifying
    BY <1>1, <1>5, OverIsLawful DEF Init, KeysInit, Verifying
<1>10. QED
    BY <1>2, <1>4, <1>6, <1>7, <1>8, <1>9 DEF IInv, AccessInv

\* Nothing happens to the sessions.
LEMMA AccessAlone ==
    ASSUME AccessInv, UNCHANGED accessVars
    PROVE  AccessInv' /\ UNCHANGED request
<1>1. UNCHANGED <<member, live, conn, request>>
    BY DEF accessVars
<1>2. RequestsAreLawful'
    BY <1>1, GrantsStay DEF AccessInv, RequestsAreLawful, Lawful
<1>3. ConnectionsAreScoped'
    BY <1>1 DEF AccessInv, ConnectionsAreScoped
<1>4. QED
    BY <1>1, <1>2, <1>3 DEF AccessInv

\* Every step keeps the invariant: of the two halves, one at most moves for a request,
\* except where its verification begins and ends.
LEMMA InductiveStep == IInv /\ [Next]_vars => IInv'
<1> SUFFICES ASSUME IInv, [Next]_vars PROVE IInv'
    OBVIOUS
<1>0. KeysInv /\ AccessInv /\ Verifying
    BY DEF IInv
<1>1. ASSUME NEW r \in Requests, NEW token \in Tokens, Arrive(r, token)
      PROVE  IInv'
    <2>1. /\ token.kid \in Kids /\ Present(r, token.kid) /\ Receive(r, token)
        BY <1>1, AccessAssumption DEF Arrive
    <2>2. KeysInv' /\ \A q \in Requests : q # r => verify'[q] = verify[q]
        BY <1>0, <2>1, QuietStep
    <2>3. AccessInv' /\ request'[r].pc = "verifying" /\ \A q \in Requests : q # r => request'[q] = request[q]
        BY <1>0, <2>1, ReceiveStep
    <2>4. verify'[r].pc = "token"
        BY <1>0, <2>1 DEF Present, KeysInv, Idle
    <2>5. QED BY <1>0, <2>2, <2>3, <2>4 DEF IInv, Verifying
<1>2. ASSUME NEW r \in Requests, Resolve(r), UNCHANGED accessVars
      PROVE  IInv'
    <2>1. /\ KeysInv' /\ verify[r].pc # "idle" /\ verify'[r].pc # "idle"
          /\ \A q \in Requests : q # r => verify'[q] = verify[q]
        BY <1>0, <1>2, ResolveStep
    <2>2. AccessInv' /\ UNCHANGED request
        BY <1>0, <1>2, AccessAlone
    <2>3. QED BY <1>0, <2>1, <2>2 DEF IInv, Verifying
<1>3. ASSUME NEW r \in Requests, Decode(r) \/ Refuse(r)
      PROVE  IInv'
    <2>1. Forget(r) /\ (Authenticated(r) \/ Unauthenticated(r))
        BY <1>3 DEF Decode, Refuse
    <2>2. KeysInv' /\ \A q \in Requests : q # r => verify'[q] = verify[q]
        BY <1>0, <2>1, QuietStep
    <2>3. AccessInv' /\ request'[r].pc # "verifying" /\ \A q \in Requests : q # r => request'[q] = request[q]
        BY <1>0, <2>1, VerifiedStep
    <2>4. verify'[r].pc = "idle"
        BY <1>0, <2>1 DEF Forget, KeysInv, Idle
    <2>5. QED BY <1>0, <2>2, <2>3, <2>4 DEF IInv, Verifying
<1>4. ASSUME NEW r \in Requests, Serve(r), UNCHANGED keyVars
      PROVE  IInv'
    <2>1. Moves(r)
        BY <1>0, <1>4, ServeStep
    <2>2. UNCHANGED <<provider, cache, retired, verify, changes>> /\ changes \in 0..MaxChanges
        BY <1>0, <1>4 DEF keyVars, KeysInv, KeysTypeOK
    <2>3. KeysInv'
        BY <1>0, <2>2, KeysAlone
    <2>4. QED BY <1>0, <2>1, <2>2, <2>3 DEF IInv, Verifying, Moves
<1>5. ASSUME NEW r \in Requests, Cancel(r)
      PROVE  IInv'
    <2>1. changes' \in 0..MaxChanges /\ UNCHANGED <<provider, cache, retired, verify>>
        BY <1>0, <1>5, KeysAssumption DEF Cancel, Act, Change, KeysInv, KeysTypeOK
    <2>2. KeysInv'
        BY <1>0, <2>1, KeysAlone
    <2>3. /\ request[r].pc \in InSession /\ UNCHANGED <<member, live>> /\ Close(r, Over(r, "error"))
          /\ Lawful(Over(r, "error")) /\ Over(r, "error").pc = "error" /\ "error" \notin InSession
        BY <1>5, OverIsLawful DEF Cancel, InSession
    <2>4. Moves(r)
        BY <1>0, <2>3, ClosesMove
    <2>5. QED BY <1>0, <2>1, <2>2, <2>4 DEF IInv, Verifying, Moves
<1>6. ASSUME Environment, UNCHANGED accessVars
      PROVE  IInv'
    <2>1. KeysInv' /\ \A q \in Requests : verify'[q].pc = verify[q].pc
        BY <1>0, <1>6, EnvironmentStep
    <2>2. AccessInv' /\ UNCHANGED request
        BY <1>0, <1>6, AccessAlone
    <2>3. QED BY <1>0, <2>1, <2>2 DEF IInv, Verifying
<1>7. ASSUME Administer
      PROVE  IInv'
    <2>0. \E after : Administered(after)
        BY <1>7 DEF Administer, Grant, Suspend, Offboard
    <2>1. changes' \in 0..MaxChanges /\ UNCHANGED <<provider, cache, retired, verify>>
        BY <1>0, <2>0, KeysAssumption DEF Administered, Act, Change, KeysInv, KeysTypeOK
    <2>2. KeysInv'
        BY <1>0, <2>1, KeysAlone
    <2>3. AccessInv' /\ \A q \in Requests : request'[q].pc = "verifying" <=> request[q].pc = "verifying"
        BY <1>0, <1>7, AdministerStep
    <2>4. QED BY <1>0, <2>1, <2>2, <2>3 DEF IInv, Verifying
<1>8. CASE UNCHANGED vars
    <2>1. UNCHANGED <<provider, cache, retired, verify, changes>> /\ UNCHANGED accessVars
          /\ changes \in 0..MaxChanges
        BY <1>0, <1>8 DEF vars, keyVars, KeysInv, KeysTypeOK
    <2>2. KeysInv' /\ AccessInv' /\ UNCHANGED request
        BY <1>0, <2>1, KeysAlone, AccessAlone
    <2>3. QED BY <1>0, <2>1, <2>2 DEF IInv, Verifying
<1>9. QED
    BY <1>1, <1>2, <1>3, <1>4, <1>5, <1>6, <1>7, <1>8 DEF Next, Step

\* It holds in every reachable state.
LEMMA Invariance == Spec => []IInv
BY InitialState, InductiveStep, PTL DEF Spec

\* The variables keep their types; among others, a request in a session holds exactly
\* one connection of the pool, and a request without one holds none.
THEOREM TypeCorrect == Spec => []TypeOK
<1>1. IInv => TypeOK
    <2> SUFFICES ASSUME IInv PROVE TypeOK
        OBVIOUS
    <2>1. KeysInv /\ AccessInv /\ Verifying
        BY DEF IInv
    <2>2. ASSUME NEW r \in Requests, request[r].pc \in InSession
          PROVE  Cardinality({c \in Connections : conn[c].holder = r}) = 1
        <3>1. {c \in Connections : conn[c].holder = r} = {Held(r)}
            BY <2>1, <2>2, HeldIsOne
        <3>2. QED BY <3>1, FS_Singleton
    <2>3. ASSUME NEW r \in Requests, request[r].pc \notin InSession
          PROVE  \A c \in Connections : conn[c].holder # r
        BY <2>1, <2>3, AccessAssumption DEF AccessInv, ConnectionsAreScoped
    <2>4. AccessTypeOK
        BY <2>1, <2>2, <2>3 DEF AccessTypeOK, AccessInv, ConnectionsAreScoped, Position
    <2>5. QED BY <2>1, <2>4 DEF TypeOK, KeysInv, Verifying
<1>2. QED BY Invariance, <1>1, PTL

\* However requests, fetches, replacements of the client and the provider's changes
\* interleave, a key withdrawn a TTL ago opens nothing.
THEOREM RetiredKeysCorrect == Spec => []RetiredKeysExpire
<1>1. IInv => RetiredKeysExpire
    BY DEF IInv, KeysInv
<1>2. QED BY Invariance, <1>1, PTL

\* Whoever used a connection before, a session sees the rows of its own scope alone.
THEOREM SessionsCorrect == Spec => []SessionsAreConfined
<1>1. IInv => SessionsAreConfined
    <2> SUFFICES ASSUME IInv, NEW r \in Requests, request[r].pc \in InSession, NEW m \in Visible(Held(r))
                 PROVE  /\ request[r].pc \notin {"principal", "slug"}
                        /\ request[r].pc \in {"memberships", "capabilities"} => m[1] = User(r)
                        /\ request[r].pc \in {"rows", "leave"} => m[2] = request[r].tenant
        BY DEF SessionsAreConfined, InSession
    <2>1. AccessInv /\ r # None
        BY AccessAssumption DEF IInv
    <2>2. PICK c \in Connections : c = Held(r) /\ conn[c].holder = r
        BY <2>1, HeldIsOne
    <2>3. conn[c].local = Scope(request[r]) /\ conn[c].kept = NoSettings
        BY <2>1, <2>2 DEF AccessInv, ConnectionsAreScoped
    <2>4. /\ m \in Users \X Tenants
          /\ m[2] = Setting(c, "tenant") \/ m[1] = Setting(c, "user")
        BY <2>1, <2>2 DEF Visible, Live, AccessInv
    <2>5. m[1] # None /\ m[2] # None
        BY <2>4, AccessAssumption
    <2>6. /\ Setting(c, "tenant") = Scope(request[r]).tenant
          /\ Setting(c, "user") = Scope(request[r]).user
        BY <2>3 DEF Setting, NoSettings
    <2>7. QED BY <2>4, <2>5, <2>6 DEF Scope, NoSettings, User
<1>2. QED BY Invariance, <1>1, PTL

\* The tenant and the role a request acts with are those of a membership its user had
\* while the request ran, whatever is granted, suspended or deleted meanwhile.
THEOREM ContextsCorrect == Spec => []ContextsWereGranted
<1>1. IInv => ContextsWereGranted
    BY DEF IInv, AccessInv, RequestsAreLawful, Lawful, ContextsWereGranted
<1>2. QED BY Invariance, <1>1, PTL

=============================================================================
