------------------------ MODULE MCRouteChangeMonitor ------------------------
EXTENDS RouteChangeMonitor

CONSTANTS r1, r2, m1, m2

MCRoute == {r1, r2}
MCDefaultRoute == {r1}
MCMetric == {m1, m2}
=============================================================================
