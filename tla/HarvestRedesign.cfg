CONSTANTS
    portfolio = portfolio
    feed = feed
    a = a
    b = b
    NoLayout = NoLayout
    Sources <- MCSources
    Diffed <- MCDiffed
    Ventures <- MCVentures
    Listable <- MCListable
    Layouts = {l1, l2}
    FirstLayout = l1
    MaxEvents = 1
SPECIFICATION AttendedSpec
PROPERTY HeldBackComesBack
