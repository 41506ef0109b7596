\* Requests that carry their credentials only in the query string.
CONSTANTS
    AuthBody <- MCAuthBody
    QueryKey <- MCQueryKey
    QuerySig <- MCQuerySig
    ConfigValue <- MCConfigValue
    HeaderName <- MCHeaderName
    QueryToken <- MCQueryToken
    MaxQueryLen = 1
SPECIFICATION Spec
INVARIANT
    QueryCredentialsAccepted
\* The middleware serves one request and stops.
CHECK_DEADLOCK FALSE
