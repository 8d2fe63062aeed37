CONSTANTS
    off = off
    prod = prod
    Points = {off, prod}
    Producers = {prod}
    Spring = 2
    Autumn = 4
    FileDays = {1}
    Notations = {"basic", "utc", "extended", "naive"}
    Flaws = {"none", "extra_series", "quarter_lost", "three_lost", "hours_lost",
             "short_series", "value_missing", "value_text", "no_start", "odd_zone",
             "drift", "spike", "other_role", "other_total", "shared_only", "both_roles",
             "unknown_only", "no_eic", "no_location", "no_subject", "other_root"}
    DayMinutes = 12
    MinInterval = 2
    MaxInterval = 8
    Times = {0, 3, 8, 11}
    Texts = {"HH:MM", "HH:MM:SS"}
    Intervals = {1, 3, 9}
SPECIFICATION ConversionsSpec
INVARIANT WindowAsConfigured
