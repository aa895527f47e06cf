CONSTANT Budget = 4
SPECIFICATION Spec
INVARIANTS OneDashboard QuietHeard
PROPERTY DashboardSettles
