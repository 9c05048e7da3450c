-------------------------- MODULE MCConfiguration --------------------------
(***************************************************************************)
(* Instances of Configuration for TLC.  One setting stands for those that  *)
(* the code treats alike.                                                  *)
(***************************************************************************)
EXTENDS Configuration

MCFields == {"requestDelayMs"}
MCBatchFields == {"batchSize"}
MCZSetFields == {"zsetUnionFanIn"}
MCRedisFields == {"operationTimeoutMs"}
Workloads == {"set_get", "mset_mget", "zset_leaderboards"}
MCValues == {"zero", "one", "two"} \cup Workloads

Settled(w, v) == [f \in AllFields |-> IF f = "workload" THEN w ELSE v]

\* Everything a client may ask for, given the workloads and the values.
Partial(ws, vs) ==
  UNION {{c \in [d -> ws \cup vs] : \A f \in d : c[f] \in IF f = "workload" THEN ws ELSE vs}
         : d \in SUBSET AllFields}

Url(s, p) == [scheme |-> s, host |-> "redis", port |-> p]
NoEnv == [url |-> NoUrl, clusterUrl |-> NoUrl, tls |-> NoTLS]
Ask(c, u, cu, t) == [settings |-> c, url |-> u, clusterUrl |-> cu, tls |-> t]

\* For the settings: every request, one target or none.
SettingsWorlds ==
  {[base |-> Settled(w, v), env |-> NoEnv] : w \in Workloads, v \in {"zero", "two"}}
SettingsAsks ==
  {Ask(c, u, NoUrl, << >>) : c \in Partial(Workloads \cup {"zero"}, {"zero", "one"}),
                             u \in {NoUrl, Url("redis", 6379)}}

\* For the connections: every target and environment, few settings.
ConnectionWorlds ==
  {[base |-> Settled("set_get", "one"),
    env |-> [url |-> u, clusterUrl |-> cu, tls |-> [NoTLS EXCEPT !.ca = ca, !.skipVerify = skip]]] :
     u, cu \in {NoUrl, Url("plain", 0), Url("redis", 0), Url("rediss", 6380)},
     ca, skip \in BOOLEAN}
Urls == {NoUrl, Url("redis", 0), Url("http", 0)}
          \cup {Url(s, p) : s \in {"plain", "rediss"}, p \in {0, 6380}}
TLSSections ==
  UNION {[d -> BOOLEAN] : d \in SUBSET {"ca", "skipVerify"}} \cup {[server |-> "other", ca |-> TRUE]}
ConnectionAsks ==
  {Ask(c, u, cu, t) : c \in {<< >>, [operationTimeoutMs |-> "two"]}, u, cu \in Urls, t \in TLSSections}

MCAsks == [w \in SettingsWorlds \cup ConnectionWorlds |->
             IF w \in SettingsWorlds THEN SettingsAsks ELSE ConnectionAsks]
=============================================================================
