---------------------------- MODULE Configuration ----------------------------
(***************************************************************************)
(* The settings of a benchmark on their way to the worker that runs it:    *)
(* the job request a client posts to the controller, or the request it     *)
(* posts to a worker, the body of /start, the configuration merged over    *)
(* the worker's own, and the Redis client that is made in the end          *)
(* (internal/config, internal/service/config.go, internal/redis/client.go  *)
(* and the job manager's payload).                                         *)
(*                                                                         *)
(* Settings are functions from names to values, and a JSON object or a Go  *)
(* struct of pointers is a partial one: a name outside its DOMAIN is a key *)
(* that is absent.  The Go zero value of every setting, 0, FALSE or "", is *)
(* Zero.  A URL is a record; scheme "plain" is a bare host:port.           *)
(***************************************************************************)
EXTENDS Naturals

CONSTANTS
  Fields,       \* settings of config.Test that every workload has
  BatchFields,  \* those of the batch workloads
  ZSetFields,   \* those of the leaderboard workload
  RedisFields,  \* the timeout and the expiration, sent in the "redis" section
  Values,       \* the values of settings
  Zero,         \* the Go zero value of a setting
  Asks          \* bound: for each worker looked at, what its clients ask for.  A
                \* worker is the configuration and the REDIS_* variables it loads;
                \* an ask is settings, two URLs and the "tls" section for a worker

Worlds == DOMAIN Asks

AllFields == {"workload"} \cup Fields \cup BatchFields \cup ZSetFields \cup RedisFields

ASSUME NamesAssumption ==
  /\ {"url", "clusterUrl", "tls"} \cap AllFields = {}
  /\ "workload" \notin Fields \cup BatchFields \cup ZSetFields \cup RedisFields

IsURL(u) == u = [scheme |-> u.scheme, host |-> u.host, port |-> u.port] /\ u.port \in Nat

ASSUME AsksAssumption ==
  \A w \in Worlds : \A a \in Asks[w] :
    /\ a = [settings |-> a.settings, url |-> a.url, clusterUrl |-> a.clusterUrl, tls |-> a.tls]
    /\ IsURL(a.url) /\ IsURL(a.clusterUrl)
    /\ DOMAIN a.tls \subseteq {"ca", "skipVerify", "server"}

ASSUME ValuesAssumption ==
  /\ Zero \in Values
  /\ \A w \in Worlds : w.base \in [AllFields -> Values]
  /\ \A w \in Worlds : \A a \in Asks[w] :
       \A f \in DOMAIN a.settings : f \in AllFields /\ a.settings[f] \in Values

NoUrl == [scheme |-> "", host |-> "", port |-> 0]
NoTLS == [enabled |-> FALSE, ca |-> FALSE, skipVerify |-> FALSE, server |-> ""]
NewRedisConnection == [url |-> NoUrl, clusterUrl |-> NoUrl, tls |-> NoTLS]
NoBody == [test |-> << >>, hasRedis |-> FALSE, redis |-> << >>]
NotAsked == [settings |-> << >>, url |-> NoUrl, clusterUrl |-> NoUrl, tls |-> << >>]
NoClient == [made |-> FALSE, failed |-> FALSE]

VARIABLES
  world,    \* what the worker read at its start (of the model only)
  base,     \* Service.baseConfig, a pointer every request shares
  conn,     \* Service.baseRedisConn
  step,     \* how far the request is
  asked,    \* the client's request (of the model only)
  via,      \* whom the client sent it to (of the model only)
  job,      \* the controller's Job.Config and WorkerAssignment.RedisConfig
  body,     \* the body of the worker's /start
  run,      \* the configuration and connection of the run
  client    \* the Redis client of the run

vars == <<world, base, conn, step, asked, via, job, body, run, client>>

-----------------------------------------------------------------------------
(* URLs and connections                                                    *)

ValidURL(u) == u.scheme \in {"redis", "rediss"}
ValidClusterURL(u) == u.scheme \in {"plain", "redis", "rediss"}

\* What a client dials: host:port, with the default port.
HostPort(u) ==
  [scheme |-> "plain", host |-> u.host, port |-> IF u.port = 0 THEN 6379 ELSE u.port]

\* TLS as the scheme says; the server is named after the host.
Secured(tls, u) ==
  LET enabled == tls.enabled \/ u.scheme = "rediss"
  IN  [enabled |-> enabled, ca |-> tls.ca, skipVerify |-> tls.skipVerify,
       server |-> IF enabled /\ tls.server = "" THEN u.host ELSE tls.server]

ParseURL(c) == [c EXCEPT !.tls = Secured(@, c.url)]

\* Bug: the URL is kept as it came.
ParseClusterURLKeeps(c) == [c EXCEPT !.tls = Secured(@, c.clusterUrl)]

\* The URL is reduced to its host and port, also of its scheme.
ParseClusterURL(c) ==
  [url |-> c.url, clusterUrl |-> HostPort(c.clusterUrl), tls |-> Secured(c.tls, c.clusterUrl)]

\* The TLS settings of the environment replace the whole of what the URL gave.
LoadRedisConnection(e) ==
  LET c == [NewRedisConnection EXCEPT !.url = e.url, !.clusterUrl = e.clusterUrl]
      p == IF e.url # NoUrl THEN ParseURL(c)
           ELSE IF e.clusterUrl # NoUrl THEN ParseClusterURL(c) ELSE c
  IN  [p EXCEPT !.tls = e.tls]

\* A worker whose variables do not parse exits before it serves.
LoadableEnv(e) ==
  IF e.url # NoUrl THEN ValidURL(e.url)
  ELSE e.clusterUrl # NoUrl => ValidClusterURL(e.clusterUrl)

\* The controller prefers the cluster, a worker the single instance.
ParsableTarget(u, cu) == IF cu # NoUrl THEN ValidClusterURL(cu) ELSE ValidURL(u)
ParseRedisTarget(u, cu) ==
  IF cu # NoUrl THEN ParseClusterURL([NewRedisConnection EXCEPT !.clusterUrl = cu])
  ELSE ParseURL([NewRedisConnection EXCEPT !.url = u])

-----------------------------------------------------------------------------
(* Settings                                                                *)

Overlay(b, over) == [f \in DOMAIN b |-> IF f \in DOMAIN over THEN over[f] ELSE b[f]]

IsBatchWorkload(w) == w \in {"mset_mget", "hset_hmget", "zset_leaderboards"}

\* The struct a JSON object decodes to: absent settings are Zero.
Decoded(c) == [f \in AllFields |-> IF f \in DOMAIN c THEN c[f] ELSE Zero]

\* The settings of a workload the controller knows to belong to it.
OfWorkload(w) ==
  {"workload"} \cup Fields \cup RedisFields
    \cup (IF IsBatchWorkload(w) THEN BatchFields ELSE {})
    \cup (IF w = "zset_leaderboards" THEN ZSetFields ELSE {})

\* Bug: the leaderboard settings are taken for batch settings.
PropagatedNoZSet(c) ==
  {f \in OfWorkload(c["workload"]) \ ZSetFields : c[f] # Zero}

\* What sendJobToWorker puts into the payload.
Propagated(c) == {f \in OfWorkload(c["workload"]) : c[f] # Zero}

\* The part of a JSON object with these names, and two parts put together.
Section(c, names) == [f \in DOMAIN c \cap names |-> c[f]]
Joined(a, b) ==
  [f \in DOMAIN a \cup DOMAIN b |-> IF f \in DOMAIN a THEN a[f] ELSE b[f]]

\* Empty strings are left out.
Target(u, cu) == Joined(IF u = NoUrl THEN << >> ELSE [url |-> u],
                        IF cu = NoUrl THEN << >> ELSE [clusterUrl |-> cu])

Sanitized(c) ==
  IF IsBatchWorkload(c["workload"]) THEN c
  ELSE [f \in DOMAIN c |-> IF f \in BatchFields THEN Zero ELSE c[f]]

\* MergeConfigurationFromRequest and the sanitising that follows it.
Merged(b) == Sanitized(Overlay(Overlay(base, b.test), b.redis))

-----------------------------------------------------------------------------
(* The Redis section of a /start body                                      *)

\* One target is taken, the URL first.
RedisOk(r) ==
  IF "url" \in DOMAIN r THEN ValidURL(r.url)
  ELSE "clusterUrl" \in DOMAIN r /\ ValidClusterURL(r.clusterUrl)

\* Bug: the tls section replaces the settings, as the environment's do.
ApplyRedisOverridesWhole(r) ==
  LET c == IF "url" \in DOMAIN r
           THEN ParseURL([NewRedisConnection EXCEPT !.url = r.url])
           ELSE ParseClusterURL([NewRedisConnection EXCEPT !.clusterUrl = r.clusterUrl])
  IN  IF "tls" \in DOMAIN r THEN [c EXCEPT !.tls = Overlay(NoTLS, r.tls)] ELSE c

ApplyRedisOverrides(r) ==
  LET c == IF "url" \in DOMAIN r
           THEN ParseURL([NewRedisConnection EXCEPT !.url = r.url])
           ELSE ParseClusterURL([NewRedisConnection EXCEPT !.clusterUrl = r.clusterUrl])
  IN  IF "tls" \in DOMAIN r THEN [c EXCEPT !.tls = Overlay(@, r.tls)] ELSE c

\* The connection of a run; without a section, the worker's own.
HasTarget(c) == c.url # NoUrl \/ c.clusterUrl # NoUrl
Acceptable(b) == IF b.hasRedis THEN RedisOk(b.redis) ELSE HasTarget(conn)
Connection(b) == IF b.hasRedis THEN ApplyRedisOverrides(b.redis) ELSE conn

-----------------------------------------------------------------------------
Init ==
  /\ world \in Worlds /\ LoadableEnv(world.env)
  /\ base = world.base /\ conn = LoadRedisConnection(world.env)
  /\ asked = NotAsked /\ via = "nobody"
  /\ step = "idle"
  /\ job = << >> /\ body = NoBody /\ run = << >> /\ client = NoClient

\* A client posts a job to the controller, which makes an assignment of it.
CreateJob(a) ==
  /\ step = "idle"
  /\ ParsableTarget(a.url, a.clusterUrl)
  /\ asked' = [a EXCEPT !.tls = << >>]
  /\ via' = "controller"
  /\ job' = [config |-> Decoded(a.settings), conn |-> ParseRedisTarget(a.url, a.clusterUrl)]
  /\ step' = "created"
  /\ UNCHANGED <<world, base, conn, body, run, client>>

\* The controller builds the body of /start.  No TLS setting is part of it.
SendJobToWorker ==
  /\ step = "created"
  /\ body' = LET p == Section(job.config, Propagated(job.config))
             IN  [test |-> Section(p, AllFields \ RedisFields), hasRedis |-> TRUE,
                  redis |-> Joined(Section(p, RedisFields),
                                   Target(job.conn.url, job.conn.clusterUrl))]
  /\ step' = "sent"
  /\ UNCHANGED <<world, base, conn, asked, via, job, run, client>>

\* A client posts to a worker, with or without a redis section.
PostStart(a) ==
  /\ step = "idle"
  /\ body' = LET r == Joined(Joined(Section(a.settings, RedisFields),
                                    Target(a.url, a.clusterUrl)),
                             IF DOMAIN a.tls = {} THEN << >> ELSE [tls |-> a.tls])
             IN  [test |-> Section(a.settings, AllFields \ RedisFields),
                  hasRedis |-> DOMAIN r # {}, redis |-> r]
  /\ asked' = a
  /\ via' = "worker"
  /\ step' = "sent"
  /\ UNCHANGED <<world, base, conn, job, run, client>>

\* Bug: the overrides are written through the pointer to the base.
AcceptInPlace ==
  /\ step = "sent" /\ Acceptable(body)
  /\ run' = [config |-> Merged(body), conn |-> Connection(body)]
  /\ base' = Merged(body)
  /\ step' = "accepted"
  /\ UNCHANGED <<world, conn, asked, via, job, body, client>>

\* The worker accepts and launches the run.
Accept ==
  /\ step = "sent" /\ Acceptable(body)
  /\ run' = [config |-> Merged(body), conn |-> Connection(body)]
  /\ step' = "accepted"
  /\ UNCHANGED <<world, base, conn, asked, via, job, body, client>>

\* No target, or one that does not parse.
Refuse ==
  /\ step = "sent" /\ ~Acceptable(body)
  /\ step' = "idle"
  /\ asked' = NotAsked /\ via' = "nobody"
  /\ job' = << >> /\ body' = NoBody
  /\ UNCHANGED <<world, base, conn, run, client>>

\* CreateTLSConfig refuses to verify against no certificate authority.
Connectable(t) == t.enabled => t.ca \/ t.skipVerify

\* The client dials the cluster's address as it stands, the URL's host and port.
\* It fails without a usable TLS configuration, or if the server does not answer.
NewRedisClient ==
  /\ step = "accepted"
  /\ \/ client' = [made |-> FALSE, failed |-> TRUE]
     \/ LET c == run.conn
        IN  /\ Connectable(c.tls)
            /\ client' = [made |-> TRUE, failed |-> FALSE, tls |-> c.tls,
                          addr |-> IF c.clusterUrl # NoUrl THEN c.clusterUrl ELSE HostPort(c.url)]
  /\ step' = "connected"
  /\ UNCHANGED <<world, base, conn, asked, via, job, body, run>>

\* The run is over.
Finish ==
  /\ step = "connected"
  /\ step' = "idle"
  /\ asked' = NotAsked /\ via' = "nobody"
  /\ job' = << >> /\ body' = NoBody /\ run' = << >> /\ client' = NoClient
  /\ UNCHANGED <<world, base, conn>>

Next ==
  \/ \E a \in Asks[world] : CreateJob(a) \/ PostStart(a)
  \/ SendJobToWorker
  \/ Accept
  \/ Refuse
  \/ NewRedisClient
  \/ Finish

Spec == Init /\ [][Next]_vars

-----------------------------------------------------------------------------
(* Properties                                                              *)

Ran == step \in {"accepted", "connected"}
Connected == step = "connected" /\ client.made

\* The URL the request is about: the controller prefers the cluster, a worker
\* the single instance.
Wanted ==
  IF (via = "controller" /\ asked.clusterUrl # NoUrl) \/ asked.url = NoUrl
  THEN asked.clusterUrl ELSE asked.url

\* A batch setting of a run whose workload has none.
Hidden(f) == f \in BatchFields /\ ~IsBatchWorkload(run.config["workload"])

\* Every setting has a value, and the cluster address of an assignment is a
\* host and a port (ParseClusterURL).
TypeOK ==
  /\ step \in {"idle", "created", "sent", "accepted", "connected"}
  /\ base \in [AllFields -> Values]
  /\ DOMAIN job # {} => /\ job.config \in [AllFields -> Values]
                        /\ job.conn.clusterUrl # NoUrl =>
                             job.conn.clusterUrl.scheme = "plain" /\ job.conn.clusterUrl.port # 0
  /\ DOMAIN run # {} => run.config \in [AllFields -> Values]

\* A setting a client asks for is the one the run has: any, if it asks the
\* worker; through the controller, one that is not zero and of every workload,
\* or of the workload that the request selects (sendJobToWorker, then
\* applyTestOverrides).
OverridesReachTheWorker ==
  Ran => \A f \in DOMAIN asked.settings :
           /\ ~Hidden(f)
           /\ via = "controller" =>
                /\ asked.settings[f] # Zero
                /\ \/ f \notin BatchFields \cup ZSetFields
                   \/ "workload" \in DOMAIN asked.settings
                      /\ f \in OfWorkload(asked.settings["workload"])
           => run.config[f] = asked.settings[f]

\* What a request does not ask for is as the worker loaded it at its start,
\* whatever the requests before have asked for (the shallow copy in
\* MergeConfigurationFromRequest).
RunsDoNotLeak ==
  Ran => \A f \in AllFields \ DOMAIN asked.settings :
           ~Hidden(f) => run.config[f] = world.base[f]

\* The client dials the host and port of the URL that was asked for, however
\* often that was parsed and rewritten on the way.
DialsTheTarget ==
  Connected /\ body.hasRedis => client.addr = HostPort(Wanted)

\* The controller sends the host and port of a cluster URL, without its scheme
\* (job_manager.go:406).
SchemeIsCut == via = "controller" /\ asked.clusterUrl # NoUrl

\* "TLS is enabled/disabled based on the URL scheme" (service/config.go:31), both
\* ways, but for a cluster URL that goes through the controller: with that there
\* is never TLS.  And a server is trusted blindly only if the request says so.
SecureAsTheSchemeSays ==
  Connected /\ body.hasRedis =>
    /\ client.tls.enabled <=> Wanted.scheme = "rediss" /\ ~SchemeIsCut
    /\ client.tls.enabled /\ ~client.tls.ca =>
         "skipVerify" \in DOMAIN asked.tls /\ asked.tls.skipVerify

\* The settings a worker is sent, and the URLs.
Sent ==
  IF via = "controller"
  THEN Section(Decoded(asked.settings), Propagated(Decoded(asked.settings)))
  ELSE asked.settings
SentUrl == IF via = "controller" /\ asked.clusterUrl # NoUrl THEN NoUrl ELSE asked.url
SentClusterUrl ==
  IF via = "controller" /\ asked.clusterUrl # NoUrl THEN HostPort(asked.clusterUrl)
  ELSE asked.clusterUrl

RequestInv ==
  /\ \E a \in Asks[world] : asked \in {a, [a EXCEPT !.tls = << >>]}
  /\ \/ via = "worker" /\ step # "created" /\ job = << >>
     \/ /\ via = "controller" /\ asked.tls = << >>
        /\ ParsableTarget(asked.url, asked.clusterUrl)
        /\ job = [config |-> Decoded(asked.settings),
                  conn |-> ParseRedisTarget(asked.url, asked.clusterUrl)]

BodyInv ==
  /\ Overlay(Overlay(base, body.test), body.redis) = Overlay(base, Sent)
  /\ "url" \in DOMAIN body.redis <=> SentUrl # NoUrl
  /\ "url" \in DOMAIN body.redis => body.redis["url"] = SentUrl
  /\ "clusterUrl" \in DOMAIN body.redis <=> SentClusterUrl # NoUrl
  /\ "clusterUrl" \in DOMAIN body.redis => body.redis["clusterUrl"] = SentClusterUrl
  /\ "tls" \in DOMAIN body.redis => body.redis["tls"] = asked.tls

\* What the properties above rest on: all there is of a request, at any step, is
\* determined by what was asked, and of whom, and by what the worker loaded.
ConfigurationInv ==
  /\ world \in Worlds /\ base = world.base
  /\ step \in {"idle", "created", "sent", "accepted", "connected"}
  /\ step = "idle" => job = << >>
  /\ step # "idle" => RequestInv
  /\ step \in {"sent", "accepted", "connected"} => BodyInv
  /\ IF Ran THEN /\ Acceptable(body)
                 /\ run = [config |-> Merged(body), conn |-> Connection(body)]
            ELSE run = << >>
  /\ Connected =>
       /\ Connectable(run.conn.tls)
       /\ client.tls = run.conn.tls
       /\ client.addr = IF run.conn.clusterUrl # NoUrl THEN run.conn.clusterUrl
                        ELSE HostPort(run.conn.url)
=============================================================================
