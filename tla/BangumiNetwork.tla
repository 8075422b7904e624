--------------------------- MODULE BangumiNetwork ---------------------------
(***************************************************************************)
(* Requests of the Rust core to Bangumi:                                   *)
(*   api/config.rs        hosts, mirror, token, DoH servers                *)
(*   api/ech.rs           the ECH key and its back-off                     *)
(*   api/network.rs       the two clients and the retries                  *)
(*   api/bangumi/auth.rs, api/bangumi/user.rs  what is asked of the account*)
(*                                                                         *)
(* A request is composed at once, may have to wait for a key, picks a      *)
(* client and is sent up to three times.  The keys of the site are         *)
(* numbered; the addresses pinned with a key carry its number.             *)
(***************************************************************************)
EXTENDS Integers, Sequences, FiniteSets, SequencesExt

CONSTANTS Client,       \* calls from Dart that can be under way at once
          Endpoint,     \* https addresses of DoH servers
          Vacant,       \* nobody holds the lock; no token; no client
          MaxRequests,  \* bound: calls in a behaviour
          MaxKeys,      \* bound: keys fetched
          MaxSwitches   \* bound: changes of the settings

ASSUME NetworkAssumption ==
  /\ Vacant \notin Client
  /\ {MaxRequests, MaxKeys, MaxSwitches} \subseteq Nat

MaxAttempts == 3        \* DEFAULT_RETRY_POLICY.max_retries + 1

VARIABLES
  proxied,    \* bangumi_use_reverse_proxy
  ech,        \* bangumi_use_ech
  token,      \* bangumi_access_token
  endpoints,  \* bangumi_doh_endpoints
  key,        \* ECH_CACHE: 0 or the number of the key that is held
  expired,    \* its hour is over
  failed,     \* LAST_FAILED_AT is less than five minutes ago
  epoch,      \* ECH_EPOCH
  client,     \* ECH_CLIENT_SLOT
  writer,     \* holder of the write lock of the slot
  asker,      \* the locals of each call
  collected,  \* external: Bangumi holds the subject for the account
  requests, keys, switches

netVars == <<proxied, ech, token, endpoints, key, expired, failed, epoch,
             client, writer, asker, collected, requests, keys, switches>>

settings == <<proxied, ech, token, endpoints>>
secrets == <<key, expired, failed, epoch, client, writer>>
counts == <<requests, keys, switches>>

-----------------------------------------------------------------------------
(* Hosts: BANGUMI_HOST_PAIRS, of which three share a mirror.               *)
Hosts == <<"bangumi.tv", "bgm.tv", "chii.in", "api.bgm.tv", "next.bgm.tv",
           "lain.bgm.tv">>
MirrorOf == <<"bangumi.lol", "bangumi.lol", "bangumi.lol", "api.bangumi.lol",
              "next.bangumi.lol", "lain.bangumi.lol">>
Mirrors == ToSet(MirrorOf)

(* canonical_bangumi_host gives a mirror its first host.                   *)
Canonical(host) ==
  IF host \in Mirrors THEN Hosts[SelectInSeq(MirrorOf, LAMBDA m : m = host)]
                      ELSE host

(* rewrite_bangumi_url: an unknown host stays.                             *)
Rewritten(host, mirrored) ==
  IF ~mirrored THEN Canonical(host)
  ELSE IF host \in ToSet(Hosts)
  THEN MirrorOf[SelectInSeq(Hosts, LAMBDA h : h = host)]
  ELSE host

(* bangumi_url_for_proxy_mode, behind every URL of public content.         *)
Public(host) == IF proxied THEN Rewritten(host, TRUE) ELSE host

\* Mutant: what is asked with a token takes the way of public content.
NextHostProxied == Public("next.bgm.tv")

(* get_bangumi_next_request_context: one snapshot of host and token.       *)
NextHost == IF token # Vacant THEN "next.bgm.tv" ELSE Public("next.bgm.tv")

(* fetch_bangumi_image_url only goes to hosts of Bangumi.                  *)
ImageHost(host) == host \in ToSet(Hosts) \cup Mirrors

-----------------------------------------------------------------------------
Idle == [pc |-> "idle", op |-> "none", host |-> "none", bearer |-> Vacant,
         seen |-> 0, built |-> 0, attempt |-> 0, applied |-> FALSE,
         result |-> "none"]

NetworkInit ==
  /\ proxied \in BOOLEAN /\ ech \in BOOLEAN
  /\ token \in {Vacant, 1}
  /\ endpoints = <<>>
  /\ key = 0 /\ expired = FALSE /\ failed = FALSE
  /\ epoch = 0 /\ client = Vacant /\ writer = Vacant
  /\ asker = [c \in Client |-> Idle]
  /\ collected \in BOOLEAN
  /\ requests = 0 /\ keys = 0 /\ switches = 0

To(c, where) == asker' = [asker EXCEPT ![c].pc = where]
Ready(c) == asker[c].pc \in {"idle", "done"}

-----------------------------------------------------------------------------
(* Settings, changed by Dart at any time.                                  *)
Switches ==
  /\ switches < MaxSwitches /\ switches' = switches + 1
  /\ UNCHANGED <<asker, collected, requests, keys, key, expired, failed,
                 client, writer>>

SetReverseProxy == /\ Switches /\ proxied' = ~proxied
                   /\ UNCHANGED <<ech, token, endpoints, epoch>>
SetUseEch == /\ Switches /\ ech' = ~ech
             /\ UNCHANGED <<proxied, token, endpoints, epoch>>
SetAccessToken == /\ Switches
                  /\ token' = IF token = Vacant THEN 1 ELSE token + 1
                  /\ UNCHANGED <<proxied, ech, endpoints, epoch>>
ClearAccessToken == /\ Switches /\ token' = Vacant
                    /\ UNCHANGED <<proxied, ech, endpoints, epoch>>

(* A change of the list of DoH servers drops the client, an edit that      *)
(* leaves the list as it was does not; setting the list always does.       *)
Listed(list) == /\ endpoints' = list
                /\ epoch' = IF list = endpoints THEN epoch ELSE epoch + 1
                /\ UNCHANGED <<proxied, ech, token>>
SetEndpoints == /\ Switches
                /\ \E e \in Endpoint : endpoints' = <<e>>
                /\ epoch' = epoch + 1
                /\ UNCHANGED <<proxied, ech, token>>
AddEndpoint == /\ Switches
               /\ \E e \in Endpoint :
                    Listed(IF e \in ToSet(endpoints) THEN endpoints
                                                     ELSE Append(endpoints, e))
RemoveEndpoint == /\ Switches
                  /\ \E e \in Endpoint :
                       Listed(SelectSeq(endpoints, LAMBDA x : x # e))
MoveEndpoint == /\ Switches
                /\ \E i, j \in DOMAIN endpoints :
                     Listed(InsertAt(RemoveAt(endpoints, i), j, endpoints[i]))
ResetEndpoints == Switches /\ Listed(<<>>)

-----------------------------------------------------------------------------
(* Calls: what each asks, of which host, with which token.                 *)
Asks(c, op, host, bearer) ==
  /\ Ready(c) /\ requests < MaxRequests /\ requests' = requests + 1
  /\ asker' = [asker EXCEPT ![c] =
       [Idle EXCEPT !.pc = "ensure", !.op = op, !.host = host,
                    !.bearer = bearer, !.attempt = 1]]
  /\ UNCHANGED <<settings, secrets, collected, keys, switches>>

(* The account is asked only when somebody is logged in.                   *)
AsksAccount(c, op) == token # Vacant /\ Asks(c, op, "api.bgm.tv", token)

Profile(c) == Asks(c, "read", Public("api.bgm.tv"), Vacant)
Collections(c) == Asks(c, "read", Public("api.bgm.tv"), Vacant)
SubjectImage(c) == Asks(c, "read", Public("api.bgm.tv"), Vacant)
ImageUrl(c) == /\ ImageHost(Public("lain.bgm.tv"))
               /\ Asks(c, "read", Public("lain.bgm.tv"), Vacant)
NextContent(c) == Asks(c, "read", NextHost, token)
OAuth(c) == Asks(c, "oauth", "bgm.tv", Vacant)
Me(c) == AsksAccount(c, "read")
MyCollections(c) == AsksAccount(c, "read")
MyCollection(c) == AsksAccount(c, "find")
UpdateCollection(c) == AsksAccount(c, "update")
PatchMetadata(c) == AsksAccount(c, "patch")
DeleteCollection(c) == AsksAccount(c, "delete")

(* refresh_bangumi_ech_config forgets the key and the failure first.       *)
RefreshKey(c) ==
  /\ Ready(c) /\ requests < MaxRequests /\ requests' = requests + 1
  /\ asker' = [asker EXCEPT ![c] =
                 [Idle EXCEPT !.pc = "backoff", !.op = "refresh"]]
  /\ key' = 0 /\ expired' = FALSE /\ failed' = FALSE
  /\ UNCHANGED <<settings, epoch, client, writer, collected, keys, switches>>

-----------------------------------------------------------------------------
(* Keys.                                                                   *)
KeyFresh == key # 0 /\ ~expired

Ensure(c) ==
  /\ asker[c].pc = "ensure"
  /\ To(c, IF ech /\ ~KeyFresh THEN "backoff" ELSE "choose")
  /\ UNCHANGED <<settings, secrets, collected, counts>>

(* What a call does after a key is there, or none can be had.              *)
AfterKey(c) == IF asker[c].op = "refresh" THEN "done" ELSE "choose"

(* fetch_cloudflare_ech_bytes: a recent failure ends it, a key another     *)
(* call has fetched meanwhile is taken.                                    *)
Backoff(c) ==
  /\ asker[c].pc = "backoff"
  /\ To(c, CASE failed -> AfterKey(c)
             [] ~failed /\ KeyFresh -> "fetched"
             [] OTHER -> "doh")
  /\ UNCHANGED <<settings, secrets, collected, counts>>

(* The first DoH server to answer with a key; its answer is published.     *)
DohAnswered(c) ==
  /\ asker[c].pc = "doh" /\ keys < MaxKeys
  /\ keys' = keys + 1 /\ key' = keys' /\ expired' = FALSE
  /\ To(c, "fetched")
  /\ UNCHANGED <<settings, failed, epoch, client, writer, collected, requests,
                 switches>>

DohFailed(c) ==
  /\ asker[c].pc = "doh"
  /\ failed' = TRUE
  /\ To(c, AfterKey(c))
  /\ UNCHANGED <<settings, key, expired, epoch, client, writer, collected,
                 counts>>

(* invalidate_ech_client.                                                  *)
Invalidated(c) ==
  /\ asker[c].pc = "fetched"
  /\ failed' = FALSE /\ epoch' = epoch + 1
  /\ To(c, AfterKey(c))
  /\ UNCHANGED <<settings, key, expired, client, writer, collected, counts>>

-----------------------------------------------------------------------------
(* client_for_bangumi and get_ech_client.                                  *)
Choose(c) ==
  /\ asker[c].pc = "choose"
  /\ To(c, IF ech /\ KeyFresh THEN "epoch" ELSE "send")
  /\ UNCHANGED <<settings, secrets, collected, counts>>

Taken(c) == asker' = [asker EXCEPT ![c].pc = "send", ![c].seen = 0,
                                   ![c].built = 0]
Current(c) == client # Vacant /\ client.epoch = asker[c].seen

LoadEpoch(c) ==
  /\ asker[c].pc = "epoch"
  /\ asker' = [asker EXCEPT ![c].seen = epoch, ![c].pc = "check"]
  /\ UNCHANGED <<settings, secrets, collected, counts>>

CheckClient(c) ==
  /\ asker[c].pc = "check" /\ writer = Vacant
  /\ IF Current(c) THEN Taken(c) ELSE To(c, "lock")
  /\ UNCHANGED <<settings, secrets, collected, counts>>

(* build_ech_client reads the key, then the addresses; without a key the   *)
(* shared client takes the place.                                          *)
LockClient(c) ==
  /\ asker[c].pc = "lock" /\ writer = Vacant
  /\ IF Current(c)
       THEN Taken(c) /\ UNCHANGED writer
       ELSE /\ writer' = c
            /\ asker' = [asker EXCEPT ![c].pc = "pin",
                           ![c].built = IF KeyFresh THEN key ELSE 0]
  /\ UNCHANGED <<settings, key, expired, failed, epoch, client, collected,
                 counts>>

\* Mutant: the client is stamped with the epoch at the end of its build.
StampLate(c) == epoch

Stamp(c) == asker[c].seen

PinAndStore(c) ==
  /\ asker[c].pc = "pin"
  /\ client' = [epoch |-> Stamp(c), key |-> asker[c].built,
                pinned |-> IF asker[c].built = 0 \/ ~KeyFresh THEN 0 ELSE key]
  /\ writer' = Vacant
  /\ Taken(c)
  /\ UNCHANGED <<settings, key, expired, failed, epoch, collected, counts>>

-----------------------------------------------------------------------------
(* retry_request_inner_with_policy.  A write whose answer is lost may have *)
(* been carried out; a status that is transient comes before it is.        *)
Writes(c) == asker[c].op \in {"update", "patch", "delete"}

(* A call is over; what it wrote and was told stays for the properties.    *)
Settled(c, result, applied) ==
  asker' = [asker EXCEPT ![c] =
    [Idle EXCEPT !.pc = "done", !.op = asker[c].op, !.applied = applied,
                 !.result = IF Writes(c) THEN result ELSE "none"]]

\* Mutant: what is no longer there is an error for every call.
MissingIsError(c) == "missing"

(* A delete of what is gone succeeds, a search for it finds nothing.       *)
Gone(c) == CASE asker[c].op = "delete" -> "ok"
                [] asker[c].op = "find" -> "nothing"
                [] OTHER -> "missing"

Effect(c) == CASE asker[c].op = "update" -> TRUE
               [] asker[c].op = "delete" -> FALSE
               [] OTHER -> collected

Needs(c) == asker[c].op \in {"find", "patch", "delete"}

SendAnswered(c) ==
  /\ asker[c].pc = "send" /\ (Needs(c) => collected)
  /\ collected' = Effect(c)
  /\ Settled(c, "ok", Writes(c))
  /\ UNCHANGED <<settings, secrets, counts>>

SendMissing(c) ==
  /\ asker[c].pc = "send" /\ Needs(c) /\ ~collected
  /\ Settled(c, Gone(c), asker[c].applied)
  /\ UNCHANGED <<settings, secrets, collected, counts>>

(* A status that is not transient, or a body that does not parse.          *)
SendRefused(c) ==
  /\ asker[c].pc = "send"
  /\ Settled(c, "refused", asker[c].applied)
  /\ UNCHANGED <<settings, secrets, collected, counts>>

SendTransient(c) ==
  /\ asker[c].pc = "send"
  /\ \E reached \in BOOLEAN :
       /\ reached => Writes(c) /\ (Needs(c) => collected)
       /\ collected' = IF reached THEN Effect(c) ELSE collected
       /\ IF asker[c].attempt = MaxAttempts
            THEN Settled(c, "lost", asker[c].applied \/ reached)
            ELSE asker' = [asker EXCEPT ![c].attempt = @ + 1,
                                        ![c].applied = @ \/ reached]
  /\ UNCHANGED <<settings, secrets, counts>>

(* The hour of the key is over; the five minutes of a failure are.         *)
KeyExpires == /\ KeyFresh /\ expired' = TRUE
              /\ UNCHANGED <<settings, key, failed, epoch, client, writer,
                             asker, collected, counts>>
BackoffEnds == /\ failed /\ failed' = FALSE
               /\ UNCHANGED <<settings, key, expired, epoch, client, writer,
                              asker, collected, counts>>

-----------------------------------------------------------------------------
EndpointsChange == \/ SetEndpoints \/ AddEndpoint \/ RemoveEndpoint
                   \/ MoveEndpoint \/ ResetEndpoints
AccountCalls(c) ==
  \/ Profile(c) \/ Collections(c) \/ SubjectImage(c) \/ ImageUrl(c)
  \/ NextContent(c) \/ OAuth(c) \/ Me(c) \/ MyCollections(c)
  \/ MyCollection(c) \/ UpdateCollection(c) \/ PatchMetadata(c)
  \/ DeleteCollection(c)
NetworkSteps(c) ==
  \/ Ensure(c) \/ Backoff(c) \/ DohAnswered(c) \/ DohFailed(c)
  \/ Invalidated(c) \/ Choose(c) \/ LoadEpoch(c) \/ CheckClient(c)
  \/ LockClient(c) \/ PinAndStore(c)
  \/ SendAnswered(c) \/ SendMissing(c) \/ SendRefused(c) \/ SendTransient(c)

NetworkNext ==
  \/ SetReverseProxy \/ SetUseEch \/ SetAccessToken \/ ClearAccessToken
  \/ EndpointsChange \/ KeyExpires \/ BackoffEnds
  \/ \E c \in Client : AccountCalls(c) \/ RefreshKey(c) \/ NetworkSteps(c)
NetworkSpec == NetworkInit /\ [][NetworkNext]_netVars

-----------------------------------------------------------------------------
(* "a concurrent login could attach a newly-set token to a previously      *)
(* selected content-mirror URL" (config.rs): a request that carries a      *)
(* token or the secret of the application never goes to a mirror, whatever *)
(* is switched while it is composed, waits for a key or is tried again.    *)
CredentialsStayHome ==
  \A c \in Client :
    (asker[c].bearer # Vacant \/ asker[c].op = "oauth")
      => asker[c].host \notin Mirrors

(* A client that requests still take holds the key and the addresses that  *)
(* are published, once nobody is between publishing and invalidating:      *)
(* neither a build nor a check that straddles a rotation leaves the old.   *)
ClientHoldsKey ==
  (client # Vacant /\ KeyFresh /\ \A c \in Client : asker[c].pc # "fetched")
    => (client.epoch = epoch => client.key = key /\ client.pinned = key)

(* A call that is alone, and whose write was carried out by an attempt     *)
(* whose answer was lost, is not told by a later attempt that there is     *)
(* nothing to write; and what it reports as done is so.                    *)
RetryMeetsItsEffect ==
  \A c \in Client :
    (/\ asker[c].pc = "done" /\ Writes(c)
     /\ \A d \in Client \ {c} : asker[d].op = "none")
      => /\ asker[c].applied => asker[c].result # "missing"
         /\ asker[c].result = "ok" => (collected <=> asker[c].op # "delete")
=============================================================================
