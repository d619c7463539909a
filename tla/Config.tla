------------------------------- MODULE Config -------------------------------
(***************************************************************************)
(* What config.Load makes of the environment variables and what            *)
(* Config.Validate and the telemetry's own Validate accept.                *)
(*                                                                         *)
(* A variable that is parsed is a record [text, value]: text says whether  *)
(* it is unset, does not parse, or is a value.  Other variables are        *)
(* strings, "" when unset.  A bucket name is the sequence of its           *)
(* characters.  Times are milliseconds, upload sizes kilobytes.            *)
(***************************************************************************)
EXTENDS Integers, Sequences, FiniteSets

CONSTANT WordKB  \* an int64 counts bytes modulo 2^64, which is 2^54 kilobytes

ASSUME WordKBAssumption == WordKB \in Nat /\ WordKB % 2 = 0 /\ WordKB > 0

-----------------------------------------------------------------------------
(* Reading the environment. *)

getEnv(value, default) == IF value = "" THEN default ELSE value

Unset == [text |-> "unset", value |-> 0]
Value(v) == [text |-> "value", value |-> v]
Garbage == [text |-> "garbage", value |-> 0]

\* parseBoolOrDefault, parseIntOrDefault and parseDurationOrDefault.
parseOrDefault(variable, default) ==
  IF variable.text = "value" THEN variable.value ELSE default

\* The product of the number and the unit wraps around.
Wrap(kb) == ((kb + WordKB \div 2) % WordKB) - WordKB \div 2

parseSize(size) ==
  IF size.text # "value" THEN 10 * 1024
  ELSE Wrap(IF size.unit = "MB" THEN size.value * 1024 ELSE size.value)

Seconds(n) == 1000 * n

Load(e) ==
  [environment |-> getEnv(e.GO_ENV, "development"),
   port |-> IF e.PORT = Unset THEN Value(8080) ELSE e.PORT,
   databaseURL |-> e.DATABASE_URL,
   provider |-> getEnv(e.STORAGE_PROVIDER, "s3"),
   endpoint |-> getEnv(e.STORAGE_ENDPOINT, "localhost:9000"),
   accessKey |-> e.STORAGE_ACCESS_KEY,
   secretKey |-> e.STORAGE_SECRET_KEY,
   bucket |-> IF e.STORAGE_BUCKET = <<>> THEN <<"i", "m", "a", "g", "e", "s">>
                                         ELSE e.STORAGE_BUCKET,
   maxUploadSize |-> parseSize(e.MAX_UPLOAD_SIZE),
   syncOnStartup |-> parseOrDefault(e.STORAGE_SYNC_ON_STARTUP, FALSE),
   cacheEnabled |-> parseOrDefault(e.CACHE_ENABLED, TRUE),
   demoControls |-> parseOrDefault(e.DEMO_CONTROLS_ENABLED, TRUE),
   level |-> getEnv(e.LOG_LEVEL, "info"),
   format |-> getEnv(e.LOG_FORMAT, "json"),
   readTimeout |-> parseOrDefault(e.READ_TIMEOUT, Seconds(10)),
   writeTimeout |-> parseOrDefault(e.WRITE_TIMEOUT, Seconds(10)),
   idleTimeout |-> parseOrDefault(e.SERVER_TIMEOUT, Seconds(30)),
   sampler |-> getEnv(e.OTEL_TRACES_SAMPLER, "always_on"),
   samplerArg |-> e.OTEL_TRACES_SAMPLER_ARG]

-----------------------------------------------------------------------------
(* Bucket names. *)

Digits == {"0", "1", "2", "3", "4", "5", "6", "7", "8", "9"}
LowerAlphaNum == Digits \cup
  {"a", "b", "c", "d", "e", "f", "g", "h", "i", "j", "k", "l", "m", "n", "o", "p",
   "q", "r", "s", "t", "u", "v", "w", "x", "y", "z"}

Dots(name) == {i \in DOMAIN name : name[i] = "."}

\* The parts between the dots, each by the positions around it.
Parts(name) ==
  LET ends == Dots(name) \cup {0, Len(name) + 1}
  IN  {p \in ends \X ends : p[1] < p[2] /\ \A k \in ends : ~(p[1] < k /\ k < p[2])}

isValidBucketLength(name) == Len(name) \in 3..63

hasValidBucketBoundaries(name) ==
  name # <<>> /\ name[1] \in LowerAlphaNum /\ name[Len(name)] \in LowerAlphaNum

hasValidBucketCharacters(name) ==
  /\ \A i \in DOMAIN name : name[i] \in LowerAlphaNum \cup {"-"}
  /\ \A i \in 1..(Len(name) - 1) : ~(name[i] = "-" /\ name[i + 1] = "-")

\* strconv.Atoi takes a sign before the digits.
IsNumber(name, part) ==
  LET first == IF name[part[1] + 1] \in {"+", "-"} THEN part[1] + 2 ELSE part[1] + 1
  IN  first < part[2] /\ \A i \in first..(part[2] - 1) : name[i] \in Digits

isIPAddressFormat(name) ==
  /\ Cardinality(Dots(name)) = 3
  /\ \A part \in Parts(name) : part[1] + 1 < part[2] /\ IsNumber(name, part)

isValidBucketName(name) ==
  /\ isValidBucketLength(name) /\ hasValidBucketBoundaries(name)
  /\ hasValidBucketCharacters(name) /\ ~isIPAddressFormat(name)

isValidGCSBucketLength(name) ==
  IF Dots(name) = {} THEN isValidBucketLength(name)
  ELSE /\ \A part \in Parts(name) : part[2] - part[1] - 1 <= 63
       /\ Len(name) \in 3..222

hasValidGCSBucketCharacters(name) ==
  \A i \in DOMAIN name : name[i] \in LowerAlphaNum \cup {"-", "_", "."}

HasAt(name, i, word) ==
  i + Len(word) - 1 <= Len(name) /\ SubSeq(name, i, i + Len(word) - 1) = word

isValidGCSBucketName(name) ==
  /\ isValidGCSBucketLength(name) /\ hasValidBucketBoundaries(name)
  /\ hasValidGCSBucketCharacters(name) /\ ~isIPAddressFormat(name)
  /\ ~HasAt(name, 1, <<"g", "o", "o", "g">>)
  /\ \A i \in DOMAIN name : ~HasAt(name, i, <<"g", "o", "o", "g", "l", "e">>)

bucketNameValid(provider, name) ==
  IF provider = "gcs" THEN isValidGCSBucketName(name) ELSE isValidBucketName(name)

-----------------------------------------------------------------------------
validateServer(c) ==
  /\ c.port.text = "value" /\ c.port.value \in 1..65535
  /\ c.environment \in {"", "development", "production", "test", "staging"}

\* DATABASE_URL is a record [scheme, host, path], all "" when it is unset.
NoURL == [scheme |-> "", host |-> "", path |-> ""]

validateDatabase(c) ==
  IF c.databaseURL = NoURL THEN c.environment = "test"
  ELSE /\ c.databaseURL.scheme \in {"postgres", "postgresql"}
       /\ c.databaseURL.host # ""
       /\ c.databaseURL.path \notin {"", "/"}

validateStorageCredentialsAndLimits(c) ==
  /\ c.environment = "production" =>
       c.accessKey # "minioadmin" /\ c.secretKey # "minioadmin"
  /\ c.maxUploadSize > 0 => c.maxUploadSize <= 100 * 1024

validateStorage(c) ==
  /\ c.provider \in {"", "s3", "gcs"}
  /\ c.provider # "gcs" => c.endpoint # ""
  /\ c.bucket # <<>> /\ bucketNameValid(c.provider, c.bucket)
  /\ validateStorageCredentialsAndLimits(c)

\* strings.EqualFold ignores case: levels and formats are in lower case here.
validateLogging(c) ==
  /\ c.level \in {"debug", "info", "warn", "error"}
  /\ c.format \in {"json", "text"}

validateServerTimeouts(c) ==
  /\ c.readTimeout > 0 /\ c.readTimeout <= Seconds(300)
  /\ c.writeTimeout > 0 /\ c.writeTimeout <= Seconds(300)
  /\ c.idleTimeout > 0

Validate(c) ==
  /\ validateServer(c) /\ validateDatabase(c) /\ validateStorage(c)
  /\ validateLogging(c) /\ validateServerTimeouts(c)

\* The samplers, and the argument two of them take, in per cent.
validateSampler(c) ==
  \/ c.sampler \in {"always_on", "always_off", "parentbased_always_on",
                    "parentbased_always_off"}
  \/ /\ c.sampler \in {"traceidratio", "parentbased_traceidratio"}
     /\ c.samplerArg # Garbage
     /\ parseOrDefault(c.samplerArg, 100) \in 0..100

=============================================================================
