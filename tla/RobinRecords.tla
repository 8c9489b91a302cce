---------------------------- MODULE RobinRecords ----------------------------
(***************************************************************************)
(* What the load-balancer robin is told of the frontends of a task:        *)
(* src/pkg/robin/frontend.go.  A record has a key and selectors, each for  *)
(* a domain and a port of the service.                                     *)
(***************************************************************************)
EXTENDS JobModel

Selector(f, domain) == [domain |-> domain, port |-> f.port, frontendPort |-> f.hostPort]

\* CreateFrontEndRecords for the slice n of task t: domains and instanceDomains are the
\* private names of t and of its instance, key names it and service is what serves it.
FrontEndRecords(t, n, key, service, domains, instanceDomains) ==
  LET OfMode(fs, m) == SelectSeq(fs, LAMBDA f : (f.mode = "tcp") = (m = "tcp"))
      Selectors(fs, names) ==
        FlattenSeq([i \in DOMAIN fs |-> [k \in DOMAIN names |-> Selector(fs[i], names[k])]])
      Public(m) == LET fs == OfMode(t.public, m)
                   IN  [i \in DOMAIN fs |-> Selector(fs[i], [public |-> fs[i].domain])]
      Private(m) == OfMode(t.private, m)
      Record(m, instance) ==
        [key |-> <<key, n, m, instance>>,
         service |-> IF instance THEN <<service, n>> ELSE <<service>>,
         rewrite |-> IF t.type = "proxy" THEN t.rewrite ELSE <<>>,
         selectors |->
           IF instance
           THEN Selectors(SelectSeq(Private(m), LAMBDA f : f.register), instanceDomains)
           ELSE Public(m) \o Selectors(Private(m), domains)]
      records == <<Record("http", TRUE), Record("tcp", TRUE), Record("http", FALSE),
                   Record("tcp", FALSE)>>
  IN  FlattenSeq([i \in 1..4 |-> IF records[i].selectors = <<>> THEN <<>> ELSE <<records[i]>>])
=============================================================================
