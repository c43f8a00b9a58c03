SPECIFICATION Spec
CONSTANTS
  a = a b = b c = c r = r v1 = v1 v2 = v2 old = old new = new
  Signals = {a, b}
  Values = {v1, v2}
  Initial = v1
  Hidden = hidden
  NoValue = NoValue
  Unencodable <- MCUnencodable
  Undecodable <- MCUndecodable
  ServerScopes <- MCServerScopes
  ClientScopes <- MCClientScopes
  ReactViews = {react}
  VueViews = {vue}
  Sources = {a, c}
INVARIANTS ViewsAgree RecaptureIsClean
PROPERTY RestoreTakesAPrefix
