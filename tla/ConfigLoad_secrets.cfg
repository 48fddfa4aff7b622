SPECIFICATION Spec
CONSTANTS
  Settings = {host, port}
  Secrets = {password, cookie}
  Required = {host, password}
  Schemas <- Lenient
  host = host
  port = port
  password = password
  cookie = cookie
INVARIANT OverriddenReferenceIsUnused
CHECK_DEADLOCK FALSE
