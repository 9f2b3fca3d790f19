SPECIFICATION Spec
CONSTANTS
  Processes = {app, cli}
  Keys = {session, theme}
  Values = {old, new}
  NoCookie = NoCookie
  Nobody = Nobody
  MaxChanges = 3
  MaxFailures = 0
PROPERTY OthersCookiesStay
CHECK_DEADLOCK FALSE
