----------------------------- MODULE SigningKeys -----------------------------
(***************************************************************************)
(* The OIDC verifier's cache of signing keys (identity/oidc.py) and the      *)
(* PyJWKClient objects it wraps, used by concurrent requests.                *)
(*                                                                         *)
(* A client keeps the key ids it has resolved for its whole life and the     *)
(* last set of keys it fetched.  It fetches on its own account whenever it   *)
(* meets an unknown id.  The wrapper replaces the client when it has grown   *)
(* old, and once when a request failed, at most once per interval.  The      *)
(* constructor of a client fetches nothing, so that replacing it under the   *)
(* lock is one step.  The set fetched last has the TTL of its client, which  *)
(* is replaced then.                                                        *)
(***************************************************************************)
EXTENDS Naturals, Sequences

CONSTANTS
    Requests,
    Kids,           \* key ids that tokens may name
    Initial,        \* the ids published at first
    None,
    MaxChanges      \* bound: changes from outside, among them intervals and TTLs that pass

ASSUME KeysAssumption == Initial \subseteq Kids /\ None \notin Kids /\ MaxChanges \in Nat

VARIABLES
    published,      \* ids in the provider's JWKS
    up,             \* the provider answers
    clients,        \* PyJWKClient objects, the current one last; old: ttl_seconds passed
    mayRefetch,     \* may_refetch: min_refetch_interval passed since last_refetch_attempt
    retired,        \* history: ids withdrawn before a TTL that has passed since
    verify,         \* [Requests -> its position in _signing_key]
    changes

provider == <<published, up>>
cache == <<clients, mayRefetch>>
keyVars == <<provider, cache, retired, verify, changes>>

\* The answer of a fetch that failed, and a set of keys never fetched.
NoKeys == None

Client == [known : SUBSET Kids, jwks : (SUBSET Kids) \cup {NoKeys}, old : BOOLEAN]

Idle == [pc |-> "idle", kid |-> None, client |-> 0, again |-> FALSE,
         answer |-> NoKeys, warm |-> FALSE, late |-> FALSE]

KeysTypeOK ==
    /\ published \subseteq Kids /\ up \in BOOLEAN /\ mayRefetch \in BOOLEAN
    /\ clients \in Seq(Client) /\ retired \subseteq Kids /\ changes \in 0..MaxChanges
    /\ \A r \in Requests :
        /\ verify[r].pc \in {"idle", "token", "look", "fill", "refresh", "filled",
                             "refreshed", "failed", "key", "rejected"}
        /\ verify[r].kid \in Kids \cup {None} /\ verify[r].client \in 0..Len(clients)
        /\ verify[r].pc \in {"look", "fill", "refresh", "filled", "refreshed", "failed", "key"}
             => verify[r].client # 0 /\ verify[r].kid # None

KeysInit ==
    /\ published = Initial /\ up = TRUE
    /\ clients = <<>> /\ mayRefetch = TRUE
    /\ retired = {} /\ changes = 0
    /\ verify = [r \in Requests |-> Idle]

-----------------------------------------------------------------------------
(* _client.                                                                *)

\* Mutant: the client is created once and kept.
StaleWhenMissing == clients = <<>>

\* is_stale.
Stale == clients = <<>> \/ clients[Len(clients)].old

Empty == [known |-> {}, jwks |-> NoKeys, old |-> FALSE]

\* A new client, the time of the attempt noted; or the one there is.
Provide(r, replace, step) ==
    /\ IF replace THEN clients' = Append(clients, Empty) /\ mayRefetch' = FALSE
                  ELSE UNCHANGED cache
    /\ verify' = [verify EXCEPT ![r].client = Len(clients'), ![r].pc = "look",
                                ![r].again = (step = "again")]

\* A key that some client obtained within its TTL and that is still published.
Warm(kid) == kid \in published /\ \E i \in 1..Len(clients) :
                                      ~clients[i].old /\ kid \in clients[i].known

\* A token with a key id and an approved algorithm.
Present(r, kid) ==
    /\ verify[r].pc = "idle"
    /\ verify' = [verify EXCEPT ![r] = [Idle EXCEPT !.pc = "token", !.kid = kid, !.warm = Warm(kid),
                                                    !.late = kid \in retired]]
    /\ UNCHANGED <<provider, cache, retired, changes>>

GetClient(r) ==
    /\ verify[r].pc = "token"
    /\ Provide(r, Stale, "first")
    /\ UNCHANGED <<provider, retired, changes>>

\* force_refresh: rate-limited, it hands out the current client.
ForceRefresh(r) ==
    /\ verify[r].pc = "failed" /\ ~verify[r].again
    /\ Provide(r, mayRefetch, "again")
    /\ UNCHANGED <<provider, retired, changes>>

\* The second miss.
Reject(r) ==
    /\ verify[r].pc = "failed" /\ verify[r].again
    /\ verify' = [verify EXCEPT ![r].pc = "rejected"]
    /\ UNCHANGED <<provider, cache, retired, changes>>

-----------------------------------------------------------------------------
(* PyJWKClient.get_signing_key, in a thread.                               *)

Mine(r) == clients[verify[r].client]

\* A found key is remembered for the life of the client.
Settle(r, pc, found) ==
    /\ verify' = [verify EXCEPT ![r].pc = pc, ![r].answer = NoKeys]
    /\ clients' = [clients EXCEPT ![verify[r].client].known =
                      IF found THEN @ \cup {verify[r].kid} ELSE @]

\* Resolved before, or in the set fetched last; otherwise the provider is asked.
Look(r) ==
    /\ verify[r].pc = "look"
    /\ LET kid == verify[r].kid IN
        \/ kid \in Mine(r).known /\ Settle(r, "key", TRUE)
        \/ kid \notin Mine(r).known /\ Mine(r).jwks = NoKeys /\ Settle(r, "fill", FALSE)
        \/ /\ kid \notin Mine(r).known /\ Mine(r).jwks # NoKeys
           /\ IF kid \in Mine(r).jwks THEN Settle(r, "key", TRUE) ELSE Settle(r, "refresh", FALSE)
    /\ UNCHANGED <<provider, mayRefetch, retired, changes>>

\* The provider answers, or the fetch fails.
Ask(r) ==
    /\ verify[r].pc \in {"fill", "refresh"}
    /\ verify' = [verify EXCEPT
            ![r].pc = IF @ = "fill" THEN "filled" ELSE "refreshed",
            ![r].answer = IF up THEN published ELSE NoKeys]
    /\ UNCHANGED <<provider, cache, retired, changes>>

\* The answer, also a missing one, replaces the set fetched last.  An id that is
\* not in a set asked for to fill the cache has it fetched once more.
Put(r) ==
    /\ verify[r].pc \in {"filled", "refreshed"}
    /\ LET answer == verify[r].answer
           found == answer # NoKeys /\ verify[r].kid \in answer
       IN  /\ verify' = [verify EXCEPT ![r].answer = NoKeys,
                  ![r].pc = IF found THEN "key"
                            ELSE IF answer # NoKeys /\ @ = "filled" THEN "refresh" ELSE "failed"]
           /\ clients' = [clients EXCEPT
                  ![verify[r].client].jwks = answer,
                  ![verify[r].client].known = IF found THEN @ \cup {verify[r].kid} ELSE @]
    /\ UNCHANGED <<provider, mayRefetch, retired, changes>>

\* The request is over: verified, refused, or given up by its client.
Forget(r) ==
    /\ verify' = [verify EXCEPT ![r] = Idle]
    /\ UNCHANGED <<provider, cache, retired, changes>>

-----------------------------------------------------------------------------
(* The provider, and time.                                                 *)

Change == changes < MaxChanges /\ changes' = changes + 1

Publish(kid) ==
    /\ Change /\ kid \notin published
    /\ published' = published \cup {kid} /\ retired' = retired \ {kid}
    /\ verify' = [r \in Requests |-> IF verify[r].kid = kid
                                     THEN [verify[r] EXCEPT !.late = FALSE] ELSE verify[r]]
    /\ UNCHANGED <<up, cache>>

Retire(kid) ==
    /\ Change /\ kid \in published
    /\ published' = published \ {kid}
    /\ verify' = [r \in Requests |-> IF verify[r].kid = kid
                                     THEN [verify[r] EXCEPT !.warm = FALSE] ELSE verify[r]]
    /\ UNCHANGED <<up, cache, retired>>

Toggle ==
    /\ Change /\ up' = ~up
    /\ UNCHANGED <<published, cache, retired, verify>>

IntervalPasses ==
    /\ Change /\ ~mayRefetch /\ mayRefetch' = TRUE
    /\ UNCHANGED <<provider, clients, retired, verify>>

\* ttl_seconds pass; the refetch interval, the shorter of the two, with them.
TTLPasses ==
    /\ Change /\ clients # <<>>
    /\ clients' = [i \in DOMAIN clients |-> [clients[i] EXCEPT !.old = TRUE]]
    /\ mayRefetch' = TRUE /\ retired' = Kids \ published
    /\ verify' = [r \in Requests |-> [verify[r] EXCEPT !.warm = FALSE]]
    /\ UNCHANGED provider

Resolve(r) == GetClient(r) \/ Look(r) \/ Ask(r) \/ Put(r) \/ ForceRefresh(r) \/ Reject(r)

Environment ==
    \/ \E kid \in Kids : Publish(kid) \/ Retire(kid)
    \/ Toggle \/ IntervalPasses \/ TTLPasses

-----------------------------------------------------------------------------
(* Properties.                                                             *)

\* A key withdrawn by the provider opens nothing once the cache has expired:
\* _client replaces a client that is older than the TTL, whatever it remembers.
RetiredKeysExpire == \A r \in Requests : verify[r].pc = "key" => ~verify[r].late

\* A key obtained within its TTL and still published is accepted, also while the
\* provider is away (identity/oidc.py:32: "An IdP outage must not take
\* authentication down while cached keys remain valid").
OutagesSpareCachedKeys == \A r \in Requests : verify[r].pc = "rejected" => ~verify[r].warm

=============================================================================
