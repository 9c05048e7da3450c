------------------------- MODULE ConfigurationProofs -------------------------
(***************************************************************************)
(* Proofs about Configuration: whatever is asked, of the controller or of  *)
(* a worker, is determined at every step by the request and by what the    *)
(* worker loaded at its start.  The properties then compare the two ends.  *)
(***************************************************************************)
EXTENDS Configuration, TLAPS

-----------------------------------------------------------------------------
(* The parts of a body.                                                    *)

LEMMA TargetFacts ==
  ASSUME NEW u, NEW cu
  PROVE  /\ DOMAIN Target(u, cu) \subseteq {"url", "clusterUrl"}
         /\ "url" \in DOMAIN Target(u, cu) <=> u # NoUrl
         /\ u # NoUrl => Target(u, cu)["url"] = u
         /\ "clusterUrl" \in DOMAIN Target(u, cu) <=> cu # NoUrl
         /\ cu # NoUrl => Target(u, cu)["clusterUrl"] = cu
<1> DEFINE a == IF u = NoUrl THEN << >> ELSE [url |-> u]
           b == IF cu = NoUrl THEN << >> ELSE [clusterUrl |-> cu]
<1>1. DOMAIN a = (IF u = NoUrl THEN {} ELSE {"url"}) /\ (u # NoUrl => a["url"] = u)
  OBVIOUS
<1>2. /\ DOMAIN b = (IF cu = NoUrl THEN {} ELSE {"clusterUrl"})
      /\ cu # NoUrl => b["clusterUrl"] = cu
  OBVIOUS
<1>3. Target(u, cu) = [f \in DOMAIN a \cup DOMAIN b |-> IF f \in DOMAIN a THEN a[f] ELSE b[f]]
  BY DEF Target, Joined
<1>. HIDE DEF a, b
<1>. QED
  BY <1>1, <1>2, <1>3

LEMMA JoinedFacts ==
  ASSUME NEW a, NEW b
  PROVE  /\ DOMAIN Joined(a, b) = DOMAIN a \cup DOMAIN b
         /\ \A f \in DOMAIN a : Joined(a, b)[f] = a[f]
         /\ \A f \in DOMAIN b \ DOMAIN a : Joined(a, b)[f] = b[f]
BY DEF Joined

\* Sent in two sections, settings arrive as if they were one: the rest of the
\* redis section is no setting.
LEMMA SectionsOverlay ==
  ASSUME NEW b, DOMAIN b = AllFields, NEW s, NEW r,
         \A f \in AllFields : f \in DOMAIN r <=> f \in DOMAIN s /\ f \in RedisFields,
         \A f \in AllFields : f \in DOMAIN r => r[f] = s[f]
  PROVE  Overlay(Overlay(b, Section(s, AllFields \ RedisFields)), r) = Overlay(b, s)
<1> DEFINE t == Section(s, AllFields \ RedisFields)
<1>1. /\ DOMAIN t = DOMAIN s \cap (AllFields \ RedisFields)
      /\ \A f \in DOMAIN t : t[f] = s[f]
  BY DEF Section
<1>. HIDE DEF t
<1>2. /\ DOMAIN Overlay(b, t) = AllFields
      /\ \A f \in AllFields : Overlay(b, t)[f] = IF f \in DOMAIN t THEN t[f] ELSE b[f]
  BY DEF Overlay
<1>3. \A f \in AllFields : (IF f \in DOMAIN r THEN r[f] ELSE Overlay(b, t)[f])
                             = (IF f \in DOMAIN s THEN s[f] ELSE b[f])
  BY <1>1, <1>2
<1>4. Overlay(Overlay(b, t), r)
        = [f \in AllFields |-> IF f \in DOMAIN r THEN r[f] ELSE Overlay(b, t)[f]]
  BY <1>2 DEF Overlay
<1>5. Overlay(b, s) = [f \in AllFields |-> IF f \in DOMAIN s THEN s[f] ELSE b[f]]
  BY DEF Overlay
<1>6. [f \in AllFields |-> IF f \in DOMAIN r THEN r[f] ELSE Overlay(b, t)[f]]
        = [f \in AllFields |-> IF f \in DOMAIN s THEN s[f] ELSE b[f]]
  BY <1>3
<1>. QED
  BY <1>4, <1>5, <1>6 DEF t

\* A redis section of settings, a target and something that is neither.
LEMMA RedisSection ==
  ASSUME NEW s, NEW u, NEW cu, NEW x, DOMAIN x \subseteq {"tls"},
         NEW r, r = Joined(Joined(Section(s, RedisFields), Target(u, cu)), x)
  PROVE  /\ \A f \in AllFields : f \in DOMAIN r <=> f \in DOMAIN s /\ f \in RedisFields
         /\ \A f \in AllFields : f \in DOMAIN r => r[f] = s[f]
         /\ "url" \in DOMAIN r <=> u # NoUrl
         /\ "url" \in DOMAIN r => r["url"] = u
         /\ "clusterUrl" \in DOMAIN r <=> cu # NoUrl
         /\ "clusterUrl" \in DOMAIN r => r["clusterUrl"] = cu
         /\ "tls" \in DOMAIN r <=> "tls" \in DOMAIN x
         /\ "tls" \in DOMAIN r => r["tls"] = x["tls"]
<1> DEFINE p == Section(s, RedisFields)
           t == Target(u, cu)
           pt == Joined(p, t)
<1>1. DOMAIN p = DOMAIN s \cap RedisFields /\ \A f \in DOMAIN p : p[f] = s[f]
  BY DEF Section
<1>2. /\ DOMAIN t \subseteq {"url", "clusterUrl"}
      /\ "url" \in DOMAIN t <=> u # NoUrl
      /\ u # NoUrl => t["url"] = u
      /\ "clusterUrl" \in DOMAIN t <=> cu # NoUrl
      /\ cu # NoUrl => t["clusterUrl"] = cu
  BY TargetFacts
<1>3. RedisFields \subseteq AllFields /\ {"url", "clusterUrl", "tls"} \cap AllFields = {}
  BY NamesAssumption DEF AllFields
<1>0. r = Joined(pt, x)
  OBVIOUS
<1>. HIDE DEF p, t
<1>4. /\ DOMAIN pt = DOMAIN p \cup DOMAIN t
      /\ \A f \in DOMAIN p : pt[f] = p[f]
      /\ \A f \in DOMAIN t \ DOMAIN p : pt[f] = t[f]
  BY JoinedFacts
<1>. HIDE DEF pt
<1>5. /\ DOMAIN r = DOMAIN pt \cup DOMAIN x
      /\ \A f \in DOMAIN pt : r[f] = pt[f]
      /\ \A f \in DOMAIN x \ DOMAIN pt : r[f] = x[f]
  <2>1. /\ DOMAIN Joined(pt, x) = DOMAIN pt \cup DOMAIN x
        /\ \A f \in DOMAIN pt : Joined(pt, x)[f] = pt[f]
        /\ \A f \in DOMAIN x \ DOMAIN pt : Joined(pt, x)[f] = x[f]
    BY JoinedFacts
  <2>. QED
    BY <1>0, <2>1
<1>. QED
  BY <1>1, <1>2, <1>3, <1>4, <1>5

-----------------------------------------------------------------------------
(* URLs.                                                                   *)

\* To reduce a URL to its host and port twice is to do it once, and leaves a
\* cluster address that is a valid one without TLS.
LEMMA HostPortFacts ==
  ASSUME NEW u, IsURL(u)
  PROVE  /\ IsURL(HostPort(u)) /\ HostPort(HostPort(u)) = HostPort(u)
         /\ HostPort(u) # NoUrl /\ HostPort(u).scheme = "plain" /\ HostPort(u).port # 0
<1> DEFINE p == IF u.port = 0 THEN 6379 ELSE u.port
<1>1. p \in Nat /\ p # 0
  BY DEF IsURL
<1>. HIDE DEF p
<1>2. HostPort(u) = [scheme |-> "plain", host |-> u.host, port |-> p]
  BY DEF HostPort, p
<1>3. HostPort([scheme |-> "plain", host |-> u.host, port |-> p])
        = [scheme |-> "plain", host |-> u.host, port |-> p]
  BY <1>1 DEF HostPort
<1>4. IsURL([scheme |-> "plain", host |-> u.host, port |-> p])
  BY <1>1 DEF IsURL
<1>5. [scheme |-> "plain", host |-> u.host, port |-> p] # NoUrl
  BY <1>1 DEF NoUrl
<1>. QED
  BY <1>1, <1>2, <1>3, <1>4, <1>5

LEMMA NoUrlFacts == ~ValidURL(NoUrl) /\ ~ValidClusterURL(NoUrl)
BY DEF NoUrl, ValidURL, ValidClusterURL

\* What a parsed target comes to.
LEMMA SecuredFacts ==
  ASSUME NEW u
  PROVE  /\ Secured(NoTLS, u) = [enabled |-> u.scheme = "rediss", ca |-> FALSE,
                                 skipVerify |-> FALSE, server |-> Secured(NoTLS, u).server]
         /\ Secured(NoTLS, u).enabled <=> u.scheme = "rediss"
BY DEF Secured, NoTLS

LEMMA ParseURLFacts ==
  ASSUME NEW u
  PROVE  ParseURL([NewRedisConnection EXCEPT !.url = u])
           = [url |-> u, clusterUrl |-> NoUrl, tls |-> Secured(NoTLS, u)]
<1>1. [NewRedisConnection EXCEPT !.url = u] = [url |-> u, clusterUrl |-> NoUrl, tls |-> NoTLS]
  BY DEF NewRedisConnection
<1>2. ParseURL([url |-> u, clusterUrl |-> NoUrl, tls |-> NoTLS])
        = [url |-> u, clusterUrl |-> NoUrl, tls |-> Secured(NoTLS, u)]
  BY DEF ParseURL
<1>. QED
  BY <1>1, <1>2

LEMMA ParseClusterURLFacts ==
  ASSUME NEW u
  PROVE  ParseClusterURL([NewRedisConnection EXCEPT !.clusterUrl = u])
           = [url |-> NoUrl, clusterUrl |-> HostPort(u), tls |-> Secured(NoTLS, u)]
BY DEF ParseClusterURL, NewRedisConnection

-----------------------------------------------------------------------------
(* The invariant.                                                          *)

LEMMA AskedFacts ==
  ASSUME ConfigurationInv, step # "idle"
  PROVE  /\ \A f \in DOMAIN asked.settings :
              f \in AllFields /\ asked.settings[f] \in Values
         /\ IsURL(asked.url) /\ IsURL(asked.clusterUrl)
         /\ DOMAIN asked.tls \subseteq {"ca", "skipVerify", "server"}
<1>1. PICK a \in Asks[world] : asked \in {a, [a EXCEPT !.tls = << >>]}
  BY DEF ConfigurationInv, RequestInv
<1>2. /\ a = [settings |-> a.settings, url |-> a.url, clusterUrl |-> a.clusterUrl, tls |-> a.tls]
      /\ IsURL(a.url) /\ IsURL(a.clusterUrl)
      /\ DOMAIN a.tls \subseteq {"ca", "skipVerify", "server"}
      /\ \A f \in DOMAIN a.settings : f \in AllFields /\ a.settings[f] \in Values
  BY AsksAssumption, ValuesAssumption DEF ConfigurationInv, Worlds
<1>3. CASE asked = a
  BY <1>2, <1>3
<1>4. CASE asked = [a EXCEPT !.tls = << >>]
  <2>1. /\ asked.settings = a.settings /\ asked.url = a.url
        /\ asked.clusterUrl = a.clusterUrl /\ asked.tls = << >>
    BY <1>2, <1>4
  <2>. QED
    BY <1>2, <2>1
<1>. QED
  BY <1>1, <1>3, <1>4

LEMMA InitConfigurationInv == Init => ConfigurationInv
BY DEF Init, ConfigurationInv, Ran, Connected, Worlds

LEMMA CreateJobStep ==
  ASSUME ConfigurationInv, NEW a \in Asks[world], CreateJob(a)
  PROVE  ConfigurationInv'
<1>1. a = [settings |-> a.settings, url |-> a.url, clusterUrl |-> a.clusterUrl, tls |-> a.tls]
  BY AsksAssumption DEF ConfigurationInv
<1>2. /\ asked'.settings = a.settings /\ asked'.url = a.url
      /\ asked'.clusterUrl = a.clusterUrl /\ asked'.tls = << >>
  BY <1>1 DEF CreateJob
<1>3. RequestInv'
  BY <1>2 DEF CreateJob, RequestInv
<1>. QED
  BY <1>3 DEF CreateJob, ConfigurationInv, Ran, Connected

LEMMA SendJobToWorkerStep ==
  ASSUME ConfigurationInv, SendJobToWorker
  PROVE  ConfigurationInv'
<1> DEFINE d == Decoded(asked.settings)
           s == Section(d, Propagated(d))
           u == job.conn.url
           cu == job.conn.clusterUrl
<1>1. /\ step = "created" /\ step' = "sent" /\ via = "controller" /\ asked.tls = << >>
      /\ UNCHANGED <<world, base, conn, asked, via, job, run, client>>
      /\ job = [config |-> d, conn |-> ParseRedisTarget(asked.url, asked.clusterUrl)]
      /\ ParsableTarget(asked.url, asked.clusterUrl)
  BY DEF SendJobToWorker, ConfigurationInv, RequestInv
<1>2. Sent' = s
  BY <1>1 DEF Sent
<1>3. u = SentUrl' /\ cu = SentClusterUrl'
  <2>1. CASE asked.clusterUrl # NoUrl
    <3>1. job.conn = [url |-> NoUrl, clusterUrl |-> HostPort(asked.clusterUrl),
                      tls |-> Secured(NoTLS, asked.clusterUrl)]
      BY <1>1, <2>1, ParseClusterURLFacts DEF ParseRedisTarget
    <3>2. u = NoUrl /\ cu = HostPort(asked.clusterUrl)
      BY <3>1
    <3>. QED
      BY <1>1, <2>1, <3>2 DEF SentUrl, SentClusterUrl
  <2>2. CASE asked.clusterUrl = NoUrl
    <3>1. job.conn = [url |-> asked.url, clusterUrl |-> NoUrl, tls |-> Secured(NoTLS, asked.url)]
      BY <1>1, <2>2, ParseURLFacts DEF ParseRedisTarget
    <3>2. u = asked.url /\ cu = NoUrl
      BY <3>1
    <3>. QED
      BY <1>1, <2>2, <3>2 DEF SentUrl, SentClusterUrl
  <2>. QED
    BY <2>1, <2>2
<1>4. body' = [test |-> Section(s, AllFields \ RedisFields), hasRedis |-> TRUE,
               redis |-> Joined(Section(s, RedisFields), Target(u, cu))]
  BY <1>1 DEF SendJobToWorker
<1>. HIDE DEF s, u, cu
<1>5. Joined(Section(s, RedisFields), Target(u, cu))
        = Joined(Joined(Section(s, RedisFields), Target(u, cu)), << >>)
  BY DEF Joined
<1>6. DOMAIN base = AllFields
  BY ValuesAssumption DEF ConfigurationInv
<1>7. BodyInv'
  <2> DEFINE r == Joined(Section(s, RedisFields), Target(u, cu))
  <2>1. /\ \A f \in AllFields : f \in DOMAIN r <=> f \in DOMAIN s /\ f \in RedisFields
        /\ \A f \in AllFields : f \in DOMAIN r => r[f] = s[f]
        /\ "url" \in DOMAIN r <=> u # NoUrl
        /\ "url" \in DOMAIN r => r["url"] = u
        /\ "clusterUrl" \in DOMAIN r <=> cu # NoUrl
        /\ "clusterUrl" \in DOMAIN r => r["clusterUrl"] = cu
        /\ "tls" \notin DOMAIN r
    <3>1. DOMAIN << >> = {}
      OBVIOUS
    <3>. QED
      BY <1>5, <3>1, RedisSection
  <2>2. body'.redis = r /\ body'.test = Section(s, AllFields \ RedisFields)
    BY <1>4
  <2>. HIDE DEF r
  <2>3. Overlay(Overlay(base, Section(s, AllFields \ RedisFields)), r) = Overlay(base, s)
    BY <1>6, <2>1, SectionsOverlay
  <2>4. base' = base
    BY <1>1
  <2>. QED
    BY <1>2, <1>3, <2>1, <2>2, <2>3, <2>4 DEF BodyInv
<1>8. RequestInv'
  BY <1>1 DEF RequestInv, ConfigurationInv
<1>. QED
  BY <1>1, <1>7, <1>8 DEF ConfigurationInv, Ran, Connected

LEMMA PostStartStep ==
  ASSUME ConfigurationInv, NEW a \in Asks[world], PostStart(a)
  PROVE  ConfigurationInv'
<1> DEFINE s == a.settings
           x == IF DOMAIN a.tls = {} THEN << >> ELSE [tls |-> a.tls]
           r == Joined(Joined(Section(s, RedisFields), Target(a.url, a.clusterUrl)), x)
<1>1. /\ step = "idle" /\ step' = "sent" /\ via' = "worker" /\ asked' = a
      /\ UNCHANGED <<world, base, conn, job, run, client>>
      /\ body' = [test |-> Section(s, AllFields \ RedisFields),
                  hasRedis |-> DOMAIN r # {}, redis |-> r]
  BY DEF PostStart
<1>2. DOMAIN x \subseteq {"tls"} /\ ("tls" \in DOMAIN x => x["tls"] = a.tls)
  OBVIOUS
<1>3. Sent' = s /\ SentUrl' = a.url /\ SentClusterUrl' = a.clusterUrl
  BY <1>1 DEF Sent, SentUrl, SentClusterUrl
<1>4. body'.test = Section(s, AllFields \ RedisFields) /\ body'.redis = r
  BY <1>1
<1>. HIDE DEF x
<1>5. /\ \A f \in AllFields : f \in DOMAIN r <=> f \in DOMAIN s /\ f \in RedisFields
      /\ \A f \in AllFields : f \in DOMAIN r => r[f] = s[f]
      /\ "url" \in DOMAIN r <=> a.url # NoUrl
      /\ "url" \in DOMAIN r => r["url"] = a.url
      /\ "clusterUrl" \in DOMAIN r <=> a.clusterUrl # NoUrl
      /\ "clusterUrl" \in DOMAIN r => r["clusterUrl"] = a.clusterUrl
      /\ "tls" \in DOMAIN r => r["tls"] = a.tls
  BY <1>2, RedisSection
<1>. HIDE DEF r
<1>6. DOMAIN base = AllFields
  BY ValuesAssumption DEF ConfigurationInv
<1>7. Overlay(Overlay(base, Section(s, AllFields \ RedisFields)), r) = Overlay(base, s)
  BY <1>5, <1>6, SectionsOverlay
<1>8. BodyInv'
  BY <1>1, <1>3, <1>4, <1>5, <1>7 DEF BodyInv
<1>9. RequestInv'
  BY <1>1 DEF RequestInv, ConfigurationInv
<1>. QED
  BY <1>1, <1>8, <1>9 DEF ConfigurationInv, Ran, Connected

LEMMA AcceptStep ==
  ASSUME ConfigurationInv, Accept
  PROVE  ConfigurationInv'
<1>1. /\ step = "sent" /\ step' = "accepted" /\ Acceptable(body)
      /\ run' = [config |-> Merged(body), conn |-> Connection(body)]
      /\ UNCHANGED <<world, base, conn, asked, via, job, body, client>>
  BY DEF Accept
<1>2. Merged(body)' = Merged(body) /\ Connection(body)' = Connection(body)
      /\ Acceptable(body)' = Acceptable(body)
  BY <1>1 DEF Merged, Connection, Acceptable
<1>3. RequestInv' /\ BodyInv'
  BY <1>1 DEF ConfigurationInv, RequestInv, BodyInv, Sent, SentUrl, SentClusterUrl
<1>. QED
  BY <1>1, <1>2, <1>3 DEF ConfigurationInv, Ran, Connected

LEMMA NewRedisClientStep ==
  ASSUME ConfigurationInv, NewRedisClient
  PROVE  ConfigurationInv'
<1>1. /\ step = "accepted" /\ step' = "connected"
      /\ UNCHANGED <<world, base, conn, asked, via, job, body, run>>
  BY DEF NewRedisClient
<1>2. Merged(body)' = Merged(body) /\ Connection(body)' = Connection(body)
      /\ Acceptable(body)' = Acceptable(body)
  BY <1>1 DEF Merged, Connection, Acceptable
<1>3. RequestInv' /\ BodyInv'
  BY <1>1 DEF ConfigurationInv, RequestInv, BodyInv, Sent, SentUrl, SentClusterUrl
<1>4. client'.made =>
        /\ Connectable(run.conn.tls)
        /\ client'.tls = run.conn.tls
        /\ client'.addr = IF run.conn.clusterUrl # NoUrl THEN run.conn.clusterUrl
                          ELSE HostPort(run.conn.url)
  BY DEF NewRedisClient
<1>. QED
  BY <1>1, <1>2, <1>3, <1>4 DEF ConfigurationInv, Ran, Connected

LEMMA ConfigurationStep ==
  ASSUME ConfigurationInv, [Next]_vars
  PROVE  ConfigurationInv'
<1>1. CASE Refuse
  BY <1>1 DEF Refuse, ConfigurationInv, Ran, Connected
<1>2. CASE Finish
  BY <1>2 DEF Finish, ConfigurationInv, Ran, Connected
<1>3. CASE UNCHANGED vars
  BY <1>3 DEF vars, ConfigurationInv, RequestInv, BodyInv, Sent, SentUrl, SentClusterUrl, Ran,
              Connected, Merged, Connection, Acceptable
<1>. QED
  BY <1>1, <1>2, <1>3, CreateJobStep, PostStartStep, SendJobToWorkerStep, AcceptStep,
     NewRedisClientStep DEF Next

\* All there is of a request, at any step, is determined by what was asked, and of
\* whom, and by what the worker loaded at its start.
THEOREM Invariant == Spec => []ConfigurationInv
BY InitConfigurationInv, ConfigurationStep, PTL DEF Spec

-----------------------------------------------------------------------------
(* What a run has.                                                         *)

LEMMA DecodedFacts ==
  ASSUME NEW c, \A f \in DOMAIN c : f \in AllFields /\ c[f] \in Values
  PROVE  /\ Decoded(c) \in [AllFields -> Values]
         /\ \A f \in AllFields : Decoded(c)[f] = IF f \in DOMAIN c THEN c[f] ELSE Zero
BY ValuesAssumption DEF Decoded

\* The settings that are sent are those asked for, or through the controller the
\* ones that are not zero and of the workload.
LEMMA SentFacts ==
  ASSUME ConfigurationInv, step # "idle"
  PROVE  /\ DOMAIN Sent \subseteq DOMAIN asked.settings
         /\ \A f \in DOMAIN Sent : Sent[f] = asked.settings[f]
         /\ via # "controller" => DOMAIN Sent = DOMAIN asked.settings
         /\ via = "controller" =>
              \A f \in DOMAIN asked.settings :
                asked.settings[f] # Zero /\ f \in OfWorkload(Decoded(asked.settings)["workload"])
                  => f \in DOMAIN Sent
<1> DEFINE d == Decoded(asked.settings)
<1>1. \A f \in DOMAIN asked.settings : f \in AllFields /\ asked.settings[f] \in Values
  BY AskedFacts
<1>2. CASE via # "controller"
  BY <1>2 DEF Sent
<1>3. CASE via = "controller"
  <2>1. /\ DOMAIN d = AllFields
        /\ \A f \in AllFields :
             d[f] = IF f \in DOMAIN asked.settings THEN asked.settings[f] ELSE Zero
    BY <1>1, DecodedFacts
  <2>2. /\ DOMAIN Sent = DOMAIN d \cap Propagated(d)
        /\ \A f \in DOMAIN Sent : Sent[f] = d[f]
    BY <1>3 DEF Sent, Section
  <2>3. \A f : f \in Propagated(d) <=> f \in OfWorkload(d["workload"]) /\ d[f] # Zero
    BY DEF Propagated
  <2>. HIDE DEF d
  <2>4. \A f \in DOMAIN Sent : f \in DOMAIN asked.settings /\ Sent[f] = asked.settings[f]
    BY <2>1, <2>2, <2>3
  <2>5. \A f \in DOMAIN asked.settings :
          asked.settings[f] # Zero /\ f \in OfWorkload(d["workload"]) => f \in DOMAIN Sent
    BY <1>1, <2>1, <2>2, <2>3
  <2>. QED
    BY <1>3, <2>4, <2>5 DEF d
<1>. QED
  BY <1>2, <1>3

\* A run has what was sent, and otherwise what the worker loaded, but for the
\* batch settings of a workload that has none.
LEMMA RunFacts ==
  ASSUME ConfigurationInv, Ran
  PROVE  /\ run.config \in [AllFields -> Values]
         /\ \A f \in AllFields : ~Hidden(f) =>
              run.config[f] = IF f \in DOMAIN Sent THEN Sent[f] ELSE world.base[f]
<1> DEFINE c == Overlay(base, Sent)
<1>1. step # "idle" /\ step \in {"accepted", "connected"}
  BY DEF Ran
<1>2. run.config = Sanitized(c)
  BY <1>1 DEF ConfigurationInv, BodyInv, Merged
<1>3. base = world.base /\ base \in [AllFields -> Values]
  BY ValuesAssumption DEF ConfigurationInv
<1>4. /\ c \in [AllFields -> Values]
      /\ \A f \in AllFields : c[f] = IF f \in DOMAIN Sent THEN Sent[f] ELSE base[f]
  <2>1. c = [f \in AllFields |-> IF f \in DOMAIN Sent THEN Sent[f] ELSE base[f]]
    BY <1>3 DEF Overlay
  <2>2. \A f \in DOMAIN Sent : Sent[f] \in Values
    BY <1>1, SentFacts, AskedFacts
  <2>3. \A f \in AllFields : (IF f \in DOMAIN Sent THEN Sent[f] ELSE base[f]) \in Values
    BY <1>3, <2>2
  <2>. HIDE DEF c
  <2>. QED
    BY <2>1, <2>3
<1>. HIDE DEF c
<1>5. "workload" \in AllFields /\ "workload" \notin BatchFields
  BY NamesAssumption DEF AllFields
<1>6. CASE IsBatchWorkload(c["workload"])
  <2>1. run.config = c
    BY <1>2, <1>6 DEF Sanitized
  <2>. QED
    BY <1>3, <1>4, <2>1
<1>7. CASE ~IsBatchWorkload(c["workload"])
  <2>1. run.config = [f \in AllFields |-> IF f \in BatchFields THEN Zero ELSE c[f]]
    BY <1>2, <1>4, <1>7 DEF Sanitized
  <2>2. run.config["workload"] = c["workload"]
    BY <1>5, <2>1
  <2>3. run.config \in [AllFields -> Values]
    BY <1>4, <2>1, ValuesAssumption
  <2>4. \A f \in AllFields : ~Hidden(f) => run.config[f] = c[f]
    BY <1>7, <2>1, <2>2 DEF Hidden
  <2>. QED
    BY <1>3, <1>4, <2>3, <2>4
<1>. QED
  BY <1>6, <1>7

\* A request leaves nothing behind for the next one.
THEOREM RequestsLeaveNoTrace == Spec => []RunsDoNotLeak
<1>1. ConfigurationInv => RunsDoNotLeak
  <2> SUFFICES ASSUME ConfigurationInv, Ran, NEW f \in AllFields \ DOMAIN asked.settings,
                      ~Hidden(f)
               PROVE  run.config[f] = world.base[f]
    BY DEF RunsDoNotLeak
  <2>1. f \notin DOMAIN Sent
    BY SentFacts DEF Ran
  <2>. QED
    BY <2>1, RunFacts
<1>. QED
  BY <1>1, Invariant, PTL

\* What a client asks for is what the run has.
THEOREM SettingsArrive == Spec => []OverridesReachTheWorker
<1>1. ConfigurationInv => OverridesReachTheWorker
  <2> SUFFICES ASSUME ConfigurationInv, Ran, NEW f \in DOMAIN asked.settings, ~Hidden(f),
                      via = "controller" =>
                        /\ asked.settings[f] # Zero
                        /\ \/ f \notin BatchFields \cup ZSetFields
                           \/ /\ "workload" \in DOMAIN asked.settings
                              /\ f \in OfWorkload(asked.settings["workload"])
               PROVE  run.config[f] = asked.settings[f]
    BY DEF OverridesReachTheWorker
  <2>1. step # "idle" /\ f \in AllFields
    BY AskedFacts DEF Ran
  <2>2. f \in DOMAIN Sent
    <3>1. CASE via # "controller"
      BY <2>1, <3>1, SentFacts
    <3>2. CASE via = "controller" /\ f \notin BatchFields \cup ZSetFields
      <4>1. f \in {"workload"} \cup Fields \cup RedisFields
        BY <2>1, <3>2 DEF AllFields
      <4>2. f \in OfWorkload(Decoded(asked.settings)["workload"])
        BY <4>1 DEF OfWorkload
      <4>. QED
        BY <2>1, <3>2, <4>2, SentFacts
    <3>3. CASE via = "controller" /\ "workload" \in DOMAIN asked.settings
               /\ f \in OfWorkload(asked.settings["workload"])
      <4>1. Decoded(asked.settings)["workload"] = asked.settings["workload"]
        BY <2>1, <3>3, AskedFacts, DecodedFacts
      <4>. QED
        BY <2>1, <3>3, <4>1, SentFacts
    <3>. QED
      BY <3>1, <3>2, <3>3
  <2>. QED
    BY <2>1, <2>2, SentFacts, RunFacts
<1>. QED
  BY <1>1, Invariant, PTL

-----------------------------------------------------------------------------
(* What a run dials.                                                       *)

\* The connection of a run that was given a redis section: of the URL that was
\* sent, else of the cluster address, with the TLS settings of the section.
LEMMA ConnectionFacts ==
  ASSUME ConfigurationInv, Connected, body.hasRedis
  PROVE  \E u, t :
           /\ IsURL(u)
           /\ HostPort(u) = HostPort(Wanted)
           /\ client.addr = HostPort(u)
           /\ u.scheme = "rediss" <=> Wanted.scheme = "rediss" /\ ~SchemeIsCut
           /\ t = Secured(NoTLS, u)
           /\ \/ client.tls = t
              \/ client.tls = Overlay(t, asked.tls)
           /\ Connectable(client.tls)
<1> DEFINE r == body.redis
           c == IF "url" \in DOMAIN r
                THEN ParseURL([NewRedisConnection EXCEPT !.url = r["url"]])
                ELSE ParseClusterURL([NewRedisConnection EXCEPT !.clusterUrl = r["clusterUrl"]])
           k == run.conn
<1>1. step = "connected" /\ Ran /\ BodyInv /\ RequestInv
  BY DEF Connected, Ran, ConfigurationInv
<1>2. /\ RedisOk(r)
      /\ k = IF "tls" \in DOMAIN r THEN [c EXCEPT !.tls = Overlay(@, r["tls"])] ELSE c
      /\ Connectable(k.tls) /\ client.tls = k.tls
      /\ client.addr = IF k.clusterUrl # NoUrl THEN k.clusterUrl ELSE HostPort(k.url)
  BY <1>1 DEF ConfigurationInv, Acceptable, Connection, ApplyRedisOverrides
<1>3. IsURL(asked.url) /\ IsURL(asked.clusterUrl)
  BY <1>1, AskedFacts
<1>4. /\ "url" \in DOMAIN r <=> SentUrl # NoUrl
      /\ "url" \in DOMAIN r => r["url"] = SentUrl
      /\ "clusterUrl" \in DOMAIN r <=> SentClusterUrl # NoUrl
      /\ "clusterUrl" \in DOMAIN r => r["clusterUrl"] = SentClusterUrl
      /\ "tls" \in DOMAIN r => r["tls"] = asked.tls
  BY <1>1 DEF BodyInv
<1>5. /\ via \in {"worker", "controller"}
      /\ via = "controller" => ParsableTarget(asked.url, asked.clusterUrl)
  BY <1>1 DEF RequestInv
<1>6. "url" \notin DOMAIN r => "clusterUrl" \in DOMAIN r
  BY <1>2 DEF RedisOk
<1>. HIDE DEF r, k
<1>7. ASSUME NEW url, NEW cu, NEW t, c = [url |-> url, clusterUrl |-> cu, tls |-> t]
      PROVE  /\ k.url = url /\ k.clusterUrl = cu
             /\ k.tls = t \/ k.tls = Overlay(t, asked.tls)
  <2>1. CASE "tls" \in DOMAIN r
    <3>1. k = [[url |-> url, clusterUrl |-> cu, tls |-> t] EXCEPT !.tls = Overlay(@, asked.tls)]
      BY <1>2, <1>4, <1>7, <2>1
    <3>2. k = [url |-> url, clusterUrl |-> cu, tls |-> Overlay(t, asked.tls)]
      BY <3>1
    <3>. QED
      BY <3>2
  <2>2. CASE "tls" \notin DOMAIN r
    <3>1. k = [url |-> url, clusterUrl |-> cu, tls |-> t]
      BY <1>2, <1>7, <2>2
    <3>. QED
      BY <3>1
  <2>. QED
    BY <2>1, <2>2
<1>8. CASE "url" \in DOMAIN r
  <2>1. c = [url |-> SentUrl, clusterUrl |-> NoUrl, tls |-> Secured(NoTLS, SentUrl)]
    BY <1>4, <1>8, ParseURLFacts
  <2>2. SentUrl = asked.url /\ asked.url # NoUrl /\ Wanted = asked.url /\ ~SchemeIsCut
    BY <1>4, <1>8 DEF SentUrl, Wanted, SchemeIsCut
  <2>3. /\ client.addr = HostPort(SentUrl)
        /\ client.tls = Secured(NoTLS, SentUrl)
             \/ client.tls = Overlay(Secured(NoTLS, SentUrl), asked.tls)
    BY <1>2, <1>7, <2>1
  <2>. QED
    BY <1>2, <1>3, <2>2, <2>3
<1>9. CASE "url" \notin DOMAIN r
  <2>1. c = [url |-> NoUrl, clusterUrl |-> HostPort(SentClusterUrl),
             tls |-> Secured(NoTLS, SentClusterUrl)]
    BY <1>4, <1>6, <1>9, ParseClusterURLFacts
  <2>2. /\ IsURL(SentClusterUrl) /\ Wanted = asked.clusterUrl
        /\ HostPort(SentClusterUrl) = HostPort(Wanted)
        /\ SentClusterUrl.scheme = "rediss" <=> Wanted.scheme = "rediss" /\ ~SchemeIsCut
    <3>1. CASE via = "controller" /\ asked.clusterUrl # NoUrl
      BY <1>3, <3>1, HostPortFacts DEF SentClusterUrl, Wanted, HostPort, SchemeIsCut
    <3>2. CASE via = "controller" /\ asked.clusterUrl = NoUrl
      BY <1>4, <1>6, <1>9, <3>2 DEF SentClusterUrl
    <3>3. CASE via = "worker"
      BY <1>3, <1>4, <1>9, <3>3 DEF SentUrl, SentClusterUrl, Wanted, SchemeIsCut
    <3>. QED
      BY <1>5, <3>1, <3>2, <3>3
  <2>3. HostPort(SentClusterUrl) # NoUrl
    BY <2>2, HostPortFacts
  <2>4. /\ client.addr = HostPort(SentClusterUrl)
        /\ client.tls = Secured(NoTLS, SentClusterUrl)
             \/ client.tls = Overlay(Secured(NoTLS, SentClusterUrl), asked.tls)
    BY <1>2, <1>7, <2>1, <2>3
  <2>. QED
    BY <1>2, <2>2, <2>4
<1>. QED
  BY <1>8, <1>9

\* The host and port of the URL that was asked for are dialled.
THEOREM TheTargetIsDialled == Spec => []DialsTheTarget
<1>1. ConfigurationInv => DialsTheTarget
  BY ConnectionFacts DEF DialsTheTarget
<1>. QED
  BY <1>1, Invariant, PTL

\* TLS is as the scheme of the URL says, and blind trust is asked for.
THEOREM TLSFollowsTheScheme == Spec => []SecureAsTheSchemeSays
<1>1. ConfigurationInv => SecureAsTheSchemeSays
  <2> SUFFICES ASSUME ConfigurationInv, Connected, body.hasRedis
               PROVE  /\ client.tls.enabled <=> Wanted.scheme = "rediss" /\ ~SchemeIsCut
                      /\ client.tls.enabled /\ ~client.tls.ca =>
                           "skipVerify" \in DOMAIN asked.tls /\ asked.tls.skipVerify
    BY DEF SecureAsTheSchemeSays
  <2>1. PICK u, t :
           /\ u.scheme = "rediss" <=> Wanted.scheme = "rediss" /\ ~SchemeIsCut
           /\ t = Secured(NoTLS, u)
           /\ \/ client.tls = t
              \/ client.tls = Overlay(t, asked.tls)
           /\ Connectable(client.tls)
    BY ConnectionFacts
  <2>2. /\ t = [enabled |-> u.scheme = "rediss", ca |-> FALSE, skipVerify |-> FALSE,
                server |-> t.server]
        /\ t.enabled <=> u.scheme = "rediss"
    BY <2>1, SecuredFacts
  <2>3. DOMAIN asked.tls \subseteq {"ca", "skipVerify", "server"}
    BY AskedFacts DEF Connected
  <2>4. /\ client.tls.enabled <=> u.scheme = "rediss"
        /\ client.tls.skipVerify => "skipVerify" \in DOMAIN asked.tls /\ asked.tls.skipVerify
    <3>1. CASE client.tls = t
      BY <2>2, <3>1
    <3>2. CASE client.tls = Overlay(t, asked.tls)
      <4>1. /\ DOMAIN t = {"enabled", "ca", "skipVerify", "server"}
            /\ t.enabled = (u.scheme = "rediss") /\ t.skipVerify = FALSE
        BY <2>2
      <4>2. /\ client.tls["enabled"] = t["enabled"]
            /\ client.tls["skipVerify"] = IF "skipVerify" \in DOMAIN asked.tls
                                          THEN asked.tls["skipVerify"] ELSE t["skipVerify"]
        BY <2>3, <3>2, <4>1 DEF Overlay
      <4>. QED
        BY <4>1, <4>2
    <3>. QED
      BY <2>1, <3>1, <3>2
  <2>. QED
    BY <2>1, <2>4 DEF Connectable
<1>. QED
  BY <1>1, Invariant, PTL

\* Every setting keeps a value.
THEOREM TypeCorrect == Spec => []TypeOK
<1>1. ConfigurationInv => TypeOK
  <2> SUFFICES ASSUME ConfigurationInv PROVE TypeOK
    OBVIOUS
  <2>1. base \in [AllFields -> Values]
    BY ValuesAssumption DEF ConfigurationInv
  <2>2. DOMAIN job # {} =>
          /\ job.config \in [AllFields -> Values]
          /\ job.conn.clusterUrl # NoUrl =>
               job.conn.clusterUrl.scheme = "plain" /\ job.conn.clusterUrl.port # 0
    <3> SUFFICES ASSUME DOMAIN job # {}
                 PROVE  /\ job.config \in [AllFields -> Values]
                        /\ job.conn.clusterUrl # NoUrl =>
                             /\ job.conn.clusterUrl.scheme = "plain"
                             /\ job.conn.clusterUrl.port # 0
      OBVIOUS
    <3>1. /\ step # "idle"
          /\ job = [config |-> Decoded(asked.settings),
                    conn |-> ParseRedisTarget(asked.url, asked.clusterUrl)]
      <4>1. DOMAIN << >> = {}
        OBVIOUS
      <4>. QED
        BY <4>1 DEF ConfigurationInv, RequestInv
    <3>2. job.config \in [AllFields -> Values] /\ IsURL(asked.clusterUrl)
      BY <3>1, AskedFacts, DecodedFacts
    <3>3. CASE asked.clusterUrl # NoUrl
      <4>1. job.conn = [url |-> NoUrl, clusterUrl |-> HostPort(asked.clusterUrl),
                        tls |-> Secured(NoTLS, asked.clusterUrl)]
        BY <3>1, <3>3, ParseClusterURLFacts DEF ParseRedisTarget
      <4>2. job.conn.clusterUrl = HostPort(asked.clusterUrl)
        BY <4>1
      <4>. QED
        BY <3>2, <4>2, HostPortFacts
    <3>4. CASE asked.clusterUrl = NoUrl
      <4>1. job.conn = [url |-> asked.url, clusterUrl |-> NoUrl, tls |-> Secured(NoTLS, asked.url)]
        BY <3>1, <3>4, ParseURLFacts DEF ParseRedisTarget
      <4>2. job.conn.clusterUrl = NoUrl
        BY <4>1
      <4>. QED
        BY <3>2, <4>2
    <3>. QED
      BY <3>3, <3>4
  <2>3. DOMAIN run # {} => run.config \in [AllFields -> Values]
    <3>1. ~Ran => run = << >>
      BY DEF ConfigurationInv
    <3>2. DOMAIN << >> = {}
      OBVIOUS
    <3>. QED
      BY <3>1, <3>2, RunFacts
  <2>. QED
    BY <2>1, <2>2, <2>3 DEF TypeOK, ConfigurationInv
<1>. QED
  BY <1>1, Invariant, PTL
=============================================================================
