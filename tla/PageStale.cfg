CONSTANTS
    Accounts = {alice, bob}
    Nobody = Nobody
    Codes = {c1, c2}
    LastDay = 1
    MaxEdits = 1
    MaxWire = 2
    Views = {{"event", "instruments", "portfolio"}, {"history"}, {"notifications"}, {"event", "orders"}, {"ranking"}, {"news", "certs"}}
SPECIFICATION Spec
INVARIANT PriceOfTheOpenDay
CHECK_DEADLOCK FALSE
