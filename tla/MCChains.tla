------------------------------ MODULE MCChains ------------------------------
EXTENDS Chains

Ranked == [g |-> 1, u |-> 2, w |-> 2, h |-> 3, k |-> 3, i |-> 4]
Named  == [h |-> 1, k |-> 1, u |-> 2, w |-> 2, g |-> 3, i |-> 4]

Quiet == [time |-> 1, host |-> {}, process |-> {}, user |-> {}, device |-> "none",
          src |-> "none", severity |-> 2, tactic |-> 0, provider |-> "elastic"]
On(t, host, user) == [Quiet EXCEPT !.time = t, !.host = host, !.user = user]

\* A link between a host and a user that a revision takes away.
Bridge == <<
  <<On(1, {"h"}, {})>>,
  <<On(2, {"h"}, {"u"}), On(2, {}, {"u"})>>,
  <<[On(3, {}, {"u"}) EXCEPT !.severity = 3]>>>>

\* Two names of one host, seen apart first.
TwoNames == << <<On(1, {"h"}, {})>>, <<On(2, {"k"}, {})>>, <<On(3, {"h", "k"}, {})>> >>

\* Addresses, a moved time, tactics that turn.
Moving == <<
  <<[On(2, {"h"}, {}) EXCEPT !.device = "i", !.tactic = 1],
    [On(2, {"h"}, {}) EXCEPT !.device = "i", !.tactic = 3, !.severity = 3]>>,
  <<[On(3, {}, {}) EXCEPT !.src = "i", !.tactic = 2],
    [On(1, {}, {}) EXCEPT !.src = "i", !.tactic = 2]>>,
  <<[On(5, {"h"}, {}) EXCEPT !.process = {"g"}, !.provider = "splunk"]>>>>

\* A user corrected to another, a process that turns out to be the one of the
\* first alert.
Corrected == <<
  <<[On(1, {"h"}, {"u"}) EXCEPT !.process = {"g"}]>>,
  <<On(2, {}, {"u"}), On(2, {}, {"w"})>>,
  <<[On(2, {"k"}, {}) EXCEPT !.severity = 0], [On(2, {"k"}, {}) EXCEPT !.process = {"g"}]>>>>

\* One host, too far apart to be linked; a severity that falls below the floor.
FarApart == <<
  <<[On(1, {"h"}, {}) EXCEPT !.severity = 4], [On(1, {"h"}, {}) EXCEPT !.severity = 1]>>,
  <<[On(5, {"h"}, {}) EXCEPT !.tactic = 2], On(3, {"h"}, {})>>,
  <<[On(9, {"h"}, {}) EXCEPT !.tactic = 1]>>>>

\* A chain that has ended when the last alert comes, unless its first alert is
\* moved before that.
Fading == <<
  <<On(1, {"h"}, {}), On(4, {"h"}, {})>>,
  <<On(2, {"h"}, {})>>,
  <<On(6, {"h"}, {})>>>>

AlertSet == 1..3
HistorySet == {Bridge, TwoNames, Moving, Corrected, FarApart, Fading}
=============================================================================
