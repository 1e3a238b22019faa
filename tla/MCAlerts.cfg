CONSTANTS
  Users = {u1, u2}
  Workers = {w1, w2}
  WebEndpoints = {web}
  FcmEndpoints = {fcm}
  Circle = Circle
  MaxRows = 2
  Alerts = {a1}
  Grace = 2
  MaxWire = 2
SPECIFICATION AlertsSpec
INVARIANT SentIsDelivered
PROPERTY LiveSubscriptionsStay
PROPERTY NotifyIsAnswered
PROPERTY HiddenOnlyByOldAnswer
PROPERTY UntouchedAlertIsShown
