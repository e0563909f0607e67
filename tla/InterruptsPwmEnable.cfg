CONSTANTS
    Build = "header"
    Sources = {41, 42, 43}
    Kinds = {"FALL"}
    Prios = {1}
    Calls = {"cpu_interrupt_enable", "plic_interrupt_enable", "pwm_interrupt_enable"}
SPECIFICATION Spec
PROPERTIES EnablesOwnSource
CHECK_DEADLOCK FALSE
