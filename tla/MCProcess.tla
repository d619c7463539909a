----------------------------- MODULE MCProcess ------------------------------
(* The pods' environment, and what a mistake in it is like. *)
EXTENDS Process

CONSTANTS h1, h2, h3, o1, o2

\* What the pods are deployed with.
Deployed ==
  [GO_ENV |-> "production", PORT |-> Unset,
   DATABASE_URL |-> [scheme |-> "postgres", host |-> "db", path |-> "/images"],
   STORAGE_PROVIDER |-> "", STORAGE_ENDPOINT |-> "", STORAGE_ACCESS_KEY |-> "",
   STORAGE_SECRET_KEY |-> "", STORAGE_BUCKET |-> <<>>,
   MAX_UPLOAD_SIZE |-> [text |-> "unset", value |-> 0, unit |-> ""],
   STORAGE_SYNC_ON_STARTUP |-> Value(TRUE), CACHE_ENABLED |-> Unset,
   DEMO_CONTROLS_ENABLED |-> Unset, LOG_LEVEL |-> "", LOG_FORMAT |-> "",
   READ_TIMEOUT |-> Unset, WRITE_TIMEOUT |-> Garbage, SERVER_TIMEOUT |-> Unset,
   OTEL_TRACES_SAMPLER |-> "", OTEL_TRACES_SAMPLER_ARG |-> Unset]

ProcessEnvironments ==
  {Deployed,
   [Deployed EXCEPT !.STORAGE_SYNC_ON_STARTUP = Unset, !.DEMO_CONTROLS_ENABLED = Value(FALSE)],
   [Deployed EXCEPT !.STORAGE_PROVIDER = "gcs", !.CACHE_ENABLED = Value(FALSE),
                    !.STORAGE_BUCKET = <<"a", ".", "b">>],
   [Deployed EXCEPT !.GO_ENV = "test", !.DATABASE_URL = NoURL],
   [Deployed EXCEPT !.STORAGE_ACCESS_KEY = "minioadmin"],
   [Deployed EXCEPT !.STORAGE_BUCKET = <<"a", ".", "b">>],
   [Deployed EXCEPT !.OTEL_TRACES_SAMPLER = "traceidratio",
                    !.OTEL_TRACES_SAMPLER_ARG = Garbage]}
=============================================================================
