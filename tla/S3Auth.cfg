\* Every request over the small alphabets of MCS3Auth, queries of up to two
\* parts.
CONSTANTS
    AuthBody <- MCAuthBody
    QueryKey <- MCQueryKey
    QuerySig <- MCQuerySig
    ConfigValue <- MCConfigValue
    HeaderName <- MCHeaderName
    QueryToken <- MCQueryToken
    MaxQueryLen = 2
SPECIFICATION Spec
INVARIANTS
    HeaderCredentials
    StringToSignDeterministic
\* The middleware serves one request and stops.
CHECK_DEADLOCK FALSE
