\* Four changes of the preferences and one edit of each template file: lists
\* can be exchanged, shared and stale; Wireshark never stops, so no deadlock.
SPECIFICATION Spec
CONSTANTS
  CME = CME
  Generic = Generic
  Template1 = Template1
  Template2 = Template2
  File = {Template1, Template2}
  Flavor = {CME, Generic}
  PortList <- MCPortList
  Frame <- MCFrame
  MaxChanges = 4
  MaxEdits = 1
  None = None
INVARIANTS TypeOK TablesFollowPreferences ShownAsListed ConversationUniform
