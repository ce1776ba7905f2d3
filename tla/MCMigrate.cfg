SPECIFICATION Spec
CONSTANTS
    p1 = p1
    p2 = p2
    p3 = p3
    a = a
    b = b
    None = None
    Procs = {p1, p2, p3}
    Columns = {a, b}
    MaxStarts = 2
    MaxErrors = 1
INVARIANT TypeOK
INVARIANT MigrationsAddUp
INVARIANT LoneStartMigrates
PROPERTY StartupEnds
CHECK_DEADLOCK FALSE
