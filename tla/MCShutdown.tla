----------------------------- MODULE MCShutdown -----------------------------
EXTENDS SignalHandlers

\* The API's four steps; the server and the Redis client hold the loop.
ApiSteps == <<"drain-readiness", "http-server", "queues", "redis">>

\* An error that is its own cause, two that cause one another, one with a getter
\* that throws, a chain of five that ends in one without a cause, a chain that ends
\* in an object with a cause of its own, and a string.
MCCause ==
  [v \in Thrown |-> CASE v = "self"   -> "self"
                      [] v = "ping"   -> "pong"
                      [] v = "pong"   -> "ping"
                      [] v = "hostile" -> Unreadable
                      [] v = "e1"     -> "e2"
                      [] v = "e2"     -> "e3"
                      [] v = "e3"     -> "e4"
                      [] v = "e4"     -> "e5"
                      [] v = "wraps"  -> "object"
                      [] v = "object" -> "e5"
                      [] OTHER        -> Undefined]
MCThrown ==
  {"self", "ping", "pong", "hostile", "e1", "e2", "e3", "e4", "e5", "wraps", "object", "string"}
MCErrors == MCThrown \ {"object", "string"}
=============================================================================
