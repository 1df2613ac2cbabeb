------------------------- MODULE BindingCredentials -------------------------
(***************************************************************************)
(* CredentialsDecoder (components/btp-service-broker/btp/bindings): what   *)
(* Bind makes of the Secret in which the BTP operator has put the          *)
(* credentials of a binding, while the Secret may be written anew or       *)
(* damaged. A credential is a string or another JSON value; stored as text *)
(* or as JSON it is bytes, and the same bytes may stand for both.          *)
(***************************************************************************)
EXTENDS Naturals

CONSTANTS
    Names,      \* names of credentials
    Strings,    \* texts, as bytes
    Json,       \* what JSON texts, as bytes, stand for: [bytes -> JSON value]
    Missing,    \* a key that the Secret does not have
    MaxWrites   \* bound on writes of the Secret

ASSUME CredentialsAssumption ==
    /\ MaxWrites \in Nat
    /\ Missing \notin Strings \cup DOMAIN Json

VARIABLES
    credentials, \* the credentials object as BTP issued it
    data,        \* the Secret: bytes per name
    metadata,    \* its key .metadata: credentialProperties, "garbled" or Missing
    intact,      \* history: the Secret is as the BTP operator wrote it
    decoded,     \* what the last Bind got
    writes

decoderVars == <<credentials, data, metadata, intact, decoded, writes>>

Values == {[type |-> "string", value |-> s] : s \in Strings} \cup {[type |-> "json", value |-> Json[b]] : b \in DOMAIN Json}

\* A key that is not there is no credential.
ASSUME MissingAssumption == Missing \notin Values

Credentials == UNION {[names -> Values] : names \in SUBSET Names}

\* The BTP operator: strings as text, everything else as JSON.
Bytes(v) == IF v.type = "string" THEN v.value ELSE CHOOSE b \in DOMAIN Json : Json[b] = v.value
EncodedData(c) == [n \in Names |-> IF n \in DOMAIN c THEN Bytes(c[n]) ELSE Missing]
EncodedMetadata(c) == [n \in DOMAIN c |-> IF c[n].type = "string" THEN "text" ELSE "json"]

\* What .metadata unmarshals to: a format per credential, if it can be read.
bindingCredentialMetadata(c) == [kind |-> "ok", formats |-> EncodedMetadata(c)]

NotDecoded == [kind |-> "none", object |-> << >>]
DecodeError == [kind |-> "error", object |-> << >>]

DecoderInit ==
    /\ credentials \in Credentials
    /\ data = EncodedData(credentials)
    /\ metadata = bindingCredentialMetadata(credentials)
    /\ intact = TRUE
    /\ decoded = NotDecoded
    /\ writes = 0

-----------------------------------------------------------------------------

\* Mutant of decodeProperty: what looks like JSON is decoded as JSON.
guessedProperty(format, bytes) ==
    IF bytes \in DOMAIN Json THEN [type |-> "json", value |-> Json[bytes]]
    ELSE [type |-> "string", value |-> bytes]

\* One turn of the loop in decodeSecretKeys, or an error.
decodeProperty(format, bytes) ==
    IF format = "json" /\ bytes \in DOMAIN Json THEN [type |-> "json", value |-> Json[bytes]]
    ELSE IF format = "text" /\ bytes # Missing THEN [type |-> "string", value |-> bytes]
    ELSE Missing

\* decodeSecretKeys: all properties, or the first error.
decodeSecretKeys(bytes, formats) ==
    IF \E n \in DOMAIN formats : decodeProperty(formats[n], bytes[n]) = Missing THEN DecodeError
    ELSE [kind |-> "ok", object |-> [n \in DOMAIN formats |-> decodeProperty(formats[n], bytes[n])]]

\* DecodeBindingSecretData, called by Bind through getCredentials.
DecodeBindingSecretData ==
    /\ decoded' = IF metadata.kind # "ok" THEN DecodeError ELSE decodeSecretKeys(data, metadata.formats)
    /\ UNCHANGED <<credentials, data, metadata, intact, writes>>

\* The BTP operator writes the Secret again, with other credentials.
Reissue ==
    /\ writes < MaxWrites
    /\ writes' = writes + 1
    /\ credentials' \in Credentials
    /\ data' = EncodedData(credentials')
    /\ metadata' = bindingCredentialMetadata(credentials')
    /\ intact' = TRUE
    /\ UNCHANGED decoded

\* Somebody removes a key, or changes the metadata.
Damage ==
    /\ writes < MaxWrites
    /\ writes' = writes + 1
    /\ \/ \E n \in Names : data' = [data EXCEPT ![n] = Missing] /\ UNCHANGED metadata
       \/ /\ \/ metadata' \in {[metadata EXCEPT !.kind = how] : how \in {"garbled", "missing"}}
             \/ \E n \in DOMAIN metadata.formats : metadata' = [metadata EXCEPT !.formats[n] = "yaml"]
          /\ UNCHANGED data
    /\ intact' = FALSE
    /\ UNCHANGED <<credentials, decoded>>

DecoderNext == DecodeBindingSecretData \/ Reissue \/ Damage

DecoderSpec == DecoderInit /\ [][DecoderNext]_decoderVars

-----------------------------------------------------------------------------
(* Properties.                                                             *)

\* "so that we can restore the original credentials object": from a Secret as
\* the BTP operator wrote it Bind returns exactly what BTP issued last, a string
\* that reads like a number included; from one that somebody has damaged since,
\* an error or everything the metadata lists, never an object with holes.
OriginalIsRestored ==
    [][decoded' # decoded =>
        /\ intact => decoded' = [kind |-> "ok", object |-> credentials]
        /\ decoded'.kind = "ok" => DOMAIN decoded'.object = DOMAIN metadata.formats]_decoderVars
=============================================================================
