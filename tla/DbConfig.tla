------------------------------ MODULE DbConfig ------------------------------
(***************************************************************************)
(* getDBConfig and parsePostgreSQLURI: the connection parameters a pass    *)
(* takes from the Secret its CR names.  A value is represented by where it *)
(* comes from: <<parameter, "named">> the Secret's entry under the key the *)
(* CR names for the parameter, <<parameter, "default">> the one under the  *)
(* parameter's default key, <<parameter, "uri">> the part of the URI.      *)
(***************************************************************************)
EXTENDS Naturals, FiniteSets

Fields == {"host", "port", "username", "password", "dbname", "sslmode"}
Params == Fields \cup {"readonly_host"}

Missing(p) == <<p, "missing">>     \* no such entry in the config map
Builtin(p) == <<p, "builtin">>     \* port 5432, sslmode prefer

Failure == [p \in Params |-> Missing(p)]

\* The CR's connectionSecretRef: the parameters it names a key for and, with
\* uriKey set, nothing but the URI counts.
Ref == [named : SUBSET Params, uriKey : BOOLEAN]

\* The Secret: the parameters it has an entry for under the named key and
\* under the default key, and the parts of the URI, if there is one.
Secret == [exists : BOOLEAN, named : SUBSET Params, default : SUBSET Params,
           uri : BOOLEAN, scheme : BOOLEAN, parts : SUBSET Fields]

\* Bug: a key the CR names falls back to the default key.
BugGetValue(ref, secret, p) ==
  IF p \in ref.named /\ p \in secret.named THEN <<p, "named">>
  ELSE IF p \in secret.default THEN <<p, "default">>
  ELSE IF p = "sslmode" THEN Builtin(p) ELSE Missing(p)

getValue(ref, secret, p) ==
  IF p \in ref.named
    THEN IF p \in secret.named THEN <<p, "named">> ELSE Missing(p)
  ELSE IF p \in secret.default THEN <<p, "default">>
  ELSE IF p = "sslmode" THEN Builtin(p) ELSE Missing(p)

\* User name and password are optional in a URI; a replica has no place.
parsePostgreSQLURI(secret) ==
  IF secret.scheme /\ {"host", "dbname"} \subseteq secret.parts
    THEN [p \in Params |->
            IF p \in secret.parts THEN <<p, "uri">>
            ELSE IF p \in {"port", "sslmode"} THEN Builtin(p) ELSE Missing(p)]
    ELSE Failure

\* An error of any kind is the Failure to get a configuration.
getDBConfig(ref, secret) ==
  LET values == [p \in Params |-> getValue(ref, secret, p)]
  IN IF ~secret.exists THEN Failure
     ELSE IF ref.uriKey
       THEN IF secret.uri THEN parsePostgreSQLURI(secret) ELSE Failure
     ELSE IF \A p \in Fields : values[p] # Missing(p) THEN values ELSE Failure
=============================================================================
